---- MODULE Spec2Model ----
(***************************************************************************)
(* A model of the opportunity pipeline of the MEV core:                    *)
(*   - PoolManager (arbitrum/pools.rs): the pool table behind one tokio    *)
(*     RwLock, with discover_pools, refresh_all, refresh_pool, get_pools;  *)
(*   - MultiThreadedDetector (detector/multi_threaded.rs): the DashMap     *)
(*     pool table with load_pools / update_pool / the workers' lookups,    *)
(*     and the dispatcher thread and worker threads around the bounded     *)
(*     work channel;                                                       *)
(*   - MempoolMonitor and EnhancedMempoolMonitor (mempool/ultra_ws.rs);    *)
(*   - the arbitrage searches (arbitrum/detector.rs and the workers'       *)
(*     find_arbitrage_paths).                                              *)
(* Each subsystem has its own next-state relation; the specifications      *)
(* after the five parts run them.                                          *)
(***************************************************************************)
EXTENDS Integers, Sequences, FiniteSets, TLC

VARIABLES
    \* ---- PoolManager ----
    pmPools,      \* PoolManager.pools: the HashMap<Address, Pool>
    pmLock,       \* the tokio RwLock around it: [writer, readers]
    pmCommitted,  \* history: per address, the (reserve0, reserve1) pairs inserted so far
    pmOps,        \* number of discover / refresh_all / refresh_pool calls started so far
    pmReads,      \* history: the upstream reads are numbered in the order they are made
                  \* (next); per address, the read number of the reserves in the table
                  \* (installed) and the highest read number committed so far (newest)
    ds,           \* discover_pools call in flight: [pc, found, next]
    ra,           \* refresh_all call in flight: [pc, snap, results, next, clean]
    rp,           \* refresh_pool call in flight: [pc, addr, pool, updated]
    gp,           \* get_pools call in flight: [pc, todo, cur, result]
    \* ---- MultiThreadedDetector pool table ----
    dtPools,      \* MultiThreadedDetector.pools: DashMap<Address, PoolState>
    dtIndex,      \* MultiThreadedDetector.token_to_pools: DashMap<Address, Vec<Address>>
    dtLock,       \* per pool entry, the DashMap shard lock: [writer, readers]
    dtCommitted,  \* history: per address, the (reserve0, reserve1) pairs stored so far
    dtOps,        \* number of load_pools / update_pool calls started so far
    lp,           \* load_pools call in flight: [pc, pool]
    up,           \* update_pool call in flight: [pc, addr, r0, r1]
    lk,           \* a worker's pool lookup in flight: [pc, addr, pair]
    \* ---- dispatcher and workers ----
    running,      \* MultiThreadedDetector.running
    started,      \* start() has been called (threads spawned)
    txCount,      \* number of tx events the ingestor has produced so far
    ingestQ,      \* the channel behind tx_receiver
    workQ,        \* the bounded work channel (work_tx / work_rx)
    disp,         \* dispatcher thread: [pc, tx]
    wk,           \* worker threads: [Workers -> [pc, batch, idx, opp_id, batchNo]]
    stats,        \* DetectorStats: [txs_processed, opportunities_found, profitable_count]
    oppsSent,     \* number of opportunities handed to opp_sender
    received,     \* history: per tx id, the workers whose try_recv returned it (a sequence)
    dropped,      \* history: tx ids whose send returned Err (channel disconnected)
    issued,       \* history: per worker, the id ranges assigned, in order: [lo, n, batchNo]
    \* ---- mempool monitors ----
    mon,          \* MempoolMonitor::start: [running, pc, pending], and the history
                  \* extracted: the hashes extracted so far with the readings taken
                  \* on receipt of their messages
    enh,          \* EnhancedMempoolMonitor::start_enhanced: [running, pc]
    wire,         \* the WebSocket stream of the monitor under test: [state, msgs]
    clock,        \* the timestamp counter (rdtsc) and the wall clock, which are
                  \* read together; advanced on every reading
    msgCount,     \* number of upstream messages delivered so far
    outQ,         \* the tx_sender channel: the MempoolTx events emitted
    \* ---- arbitrage searches ----
    arb           \* one search call and what it returned: [kind, args, result]

pmVars == <<pmPools, pmLock, pmCommitted, pmOps, pmReads, ds, ra, rp, gp>>
dtVars == <<dtPools, dtIndex, dtLock, dtCommitted, dtOps, lp, up, lk>>
pipeVars == <<running, started, txCount, ingestQ, workQ, disp, wk, stats, oppsSent,
              received, dropped, issued>>
monVars == <<mon, enh, wire, clock, msgCount, outQ>>
vars == <<pmVars, dtVars, pipeVars, monVars, arb>>

\* ------------------------------------------------------------------------
\* Generic helpers
\* ------------------------------------------------------------------------

None == <<>>
Some(x) == <<x>>
IsSome(o) == o # <<>>

EmptyMap == [x \in {} |-> 0]

MapInsert(m, k, v) == [x \in (DOMAIN m) \cup {k} |-> IF x = k THEN v ELSE m[x]]

MinOf(S) == CHOOSE x \in S : \A y \in S : x <= y

RECURSIVE SortedSeq(_)
SortedSeq(S) ==
    IF S = {} THEN <<>>
    ELSE LET m == MinOf(S) IN <<m>> \o SortedSeq(S \ {m})

\* ------------------------------------------------------------------------
\* Part 1. PoolManager (arbitrum/pools.rs)
\* ------------------------------------------------------------------------

\* Bound: how many discover / refresh_all / refresh_pool calls a run starts.
MaxPmOps == 2

\* The two tokens of the pair under discovery, as addresses compared byte-wise,
\* in the two orders a caller can pass them.
TokenArgs == {<<1, 2>>, <<2, 1>>}

\* The upstream chain: which pools the factories know for the pair (1, 2).
\* One V3 pool at the 0.30% tier (address 11), one SushiSwap pair (address 12);
\* the other V3 tiers and the Camelot factory answer the zero address.
UpstreamV3 == {[address |-> 11, fee |-> 3000, token0 |-> 1, token1 |-> 2]}
UpstreamV2 == {[address |-> 12, pool_type |-> "SushiSwap"]}
PoolAddrs == {p.address : p \in UpstreamV3} \cup {p.address : p \in UpstreamV2}

\* What one reserve read of a V3 pool can return: an RPC error, or liquidity()
\* and slot0().sqrtPriceX96. The square-root price is sqrtK * 2^96. One read
\* per branch of the code: zero liquidity, zero price, two acceptable
\* readings, and one whose virtual reserve0 (500) is dust.
V3Reads ==
    {[ok |-> FALSE, liquidity |-> 0, sqrtK |-> 0],
     [ok |-> TRUE, liquidity |-> 0, sqrtK |-> 1],
     [ok |-> TRUE, liquidity |-> 1000, sqrtK |-> 0],
     [ok |-> TRUE, liquidity |-> 1000, sqrtK |-> 1],
     [ok |-> TRUE, liquidity |-> 2000, sqrtK |-> 1],
     [ok |-> TRUE, liquidity |-> 1000, sqrtK |-> 2]}

\* What one getReserves() of a V2 pair can return: an RPC error, or (reserve0, reserve1).
V2Reads ==
    {[ok |-> FALSE, reserve0 |-> 0, reserve1 |-> 0],
     [ok |-> TRUE, reserve0 |-> 500, reserve1 |-> 2000],
     [ok |-> TRUE, reserve0 |-> 2000, reserve1 |-> 500]}

\* Minimum virtual reserve below which a V3 pool is skipped.
DustThreshold == 1000

IsV3(pool) == pool.pool_type = "UniswapV3"

\* Virtual reserves (L * 2^96 / S, L * S / 2^96) for S = sqrtK * 2^96.
V3VirtualReserves(liq, sqrtK) == <<liq \div sqrtK, liq * sqrtK>>

\* fetch_v3_pool: None on an RPC error, zero liquidity, zero price or dust reserves.
FetchV3Pool(u, read) ==
    IF ~read.ok THEN None
    ELSE IF read.liquidity = 0 THEN None
    ELSE IF read.sqrtK = 0 THEN None
    ELSE LET r == V3VirtualReserves(read.liquidity, read.sqrtK) IN
         IF r[1] < DustThreshold \/ r[2] < DustThreshold THEN None
         ELSE Some([address |-> u.address, token0 |-> u.token0, token1 |-> u.token1,
                    pool_type |-> "UniswapV3", reserve0 |-> r[1], reserve1 |-> r[2],
                    liquidity |-> read.liquidity, fee_bps |-> u.fee \div 100])

\* fetch_v2_pool: None on an RPC error; no reserve filter.
FetchV2Pool(u, token0, token1, read) ==
    IF ~read.ok THEN None
    ELSE Some([address |-> u.address, token0 |-> token0, token1 |-> token1,
               pool_type |-> u.pool_type, reserve0 |-> read.reserve0,
               reserve1 |-> read.reserve1,
               liquidity |-> read.reserve0 + read.reserve1, fee_bps |-> 30])

\* discover_pools sorts the two tokens before asking the factories.
SortTokens(a, b) == IF a < b THEN <<a, b>> ELSE <<b, a>>

\* The V3 branch of refresh_all's per-pool future.
RefreshV3Update(pool, read) ==
    IF ~read.ok THEN None
    ELSE IF read.liquidity = 0 THEN None
    ELSE IF read.sqrtK = 0 THEN None
    ELSE LET r == V3VirtualReserves(read.liquidity, read.sqrtK) IN
         IF r[1] >= DustThreshold /\ r[2] >= DustThreshold
         THEN Some([pool EXCEPT !.reserve0 = r[1], !.reserve1 = r[2],
                                !.liquidity = read.liquidity])
         ELSE None

\* The SushiSwap | Camelot branch of refresh_all and refresh_pool.
RefreshV2Update(pool, read) ==
    IF read.ok
    THEN Some([pool EXCEPT !.reserve0 = read.reserve0, !.reserve1 = read.reserve1,
                           !.liquidity = read.reserve0 + read.reserve1])
    ELSE None

ReadsFor(pool) == IF IsV3(pool) THEN V3Reads ELSE V2Reads

\* refresh_all's future for one pool of the snapshot.
RefreshUpdate(pool, read) ==
    IF IsV3(pool) THEN RefreshV3Update(pool, read) ELSE RefreshV2Update(pool, read)

\* refresh_pool's update: V3 pools go through fetch_v3_pool again.
RefreshPoolUpdate(pool, read) ==
    IF IsV3(pool)
    THEN FetchV3Pool([address |-> pool.address, fee |-> pool.fee_bps * 100,
                      token0 |-> pool.token0, token1 |-> pool.token1], read)
    ELSE RefreshV2Update(pool, read)

\* ---- the tokio RwLock around the table ----

LockFree == [writer |-> "none", readers |-> {}]

\* A read() that does not wait for the writer.
ReadFreeUnlocked(l) == TRUE

\* pools.read().await can complete.
ReadFree(l) == l.writer = "none"

\* pools.write().await can complete.
WriteFree(l) == l.writer = "none" /\ l.readers = {}

ReservePair(pool) == <<pool.reserve0, pool.reserve1>>

\* An insert that adds the new reserves to those of a record already stored.
CommitAccumulating(p) ==
    LET q == IF p.address \in DOMAIN pmPools
             THEN [p EXCEPT !.reserve0 = @ + pmPools[p.address].reserve0,
                            !.reserve1 = @ + pmPools[p.address].reserve1]
             ELSE p
    IN /\ pmPools' = MapInsert(pmPools, p.address, q)
       /\ pmCommitted' = [pmCommitted EXCEPT ![p.address] = @ \cup {ReservePair(q)}]

\* pools.insert(addr, p), with the history of what was committed.
Commit(p) ==
    /\ pmPools' = MapInsert(pmPools, p.address, p)
    /\ pmCommitted' = [pmCommitted EXCEPT ![p.address] = @ \cup {ReservePair(p)}]

\* History: the call reads the upstream now; its reads get the next number.
ReadsUpstream == pmReads' = [pmReads EXCEPT !.next = @ + 1]

\* History: the reserves installed for addr were read at read number read_at.
Installs(addr, read_at) ==
    pmReads' = [pmReads EXCEPT !.installed[addr] = read_at,
                               !.newest[addr] = IF read_at > @ THEN read_at ELSE @]

\* History for discover_pools: a refresh that changes the table ends the
\* period in which the upstream was unchanged since the previous discovery.
RefreshCommits ==
    ds' = IF ds.prev # None /\ pmPools' # ds.prev[1].after
          THEN [ds EXCEPT !.prev = None] ELSE ds

\* History for refresh_all: another writer has committed since its snapshot.
OtherWriterCommits == ra' = IF ra.pc = "idle" THEN ra ELSE [ra EXCEPT !.clean = FALSE]

\* ---- discover_pools(token_a, token_b) ----

\* args and reads are the call's inputs; base (the table when the write lock
\* was taken) and prev (the previous call: its inputs, the addresses it
\* returned, the table it left) are history, kept while a later call can start.
DsIdle == [pc |-> "idle", found |-> <<>>, next |-> 1, args |-> <<>>, reads |-> <<>>,
           base |-> EmptyMap, prev |-> None, read_at |-> 0]

\* Lines 133-162: all factory and pool reads; the pools found, in order.
DsFetch ==
    /\ ds.pc = "idle"
    /\ pmOps < MaxPmOps
    /\ \E args \in TokenArgs :
       \E r3 \in [UpstreamV3 -> V3Reads], r2 \in [UpstreamV2 -> V2Reads] :
         LET t == SortTokens(args[1], args[2])
             f3 == {FetchV3Pool(u, r3[u]) : u \in UpstreamV3}
             f2 == {FetchV2Pool(u, t[1], t[2], r2[u]) : u \in UpstreamV2}
             got == {o[1] : o \in {x \in f3 \cup f2 : IsSome(x)}}
             order == SortedSeq({p.address : p \in got})
         IN ds' = [pc |-> "lock",
                   found |-> [i \in 1..Len(order) |->
                                 CHOOSE p \in got : p.address = order[i]],
                   next |-> 1, args |-> args, reads |-> <<r3, r2>>,
                   base |-> EmptyMap, prev |-> ds.prev, read_at |-> pmReads.next]
    /\ ReadsUpstream
    /\ pmOps' = pmOps + 1
    /\ UNCHANGED <<pmPools, pmLock, pmCommitted, ra, rp, gp>>
    /\ UNCHANGED <<dtVars, pipeVars, monVars, arb>>

\* Line 165: self.pools.write().await
DsLock ==
    /\ ds.pc = "lock"
    /\ WriteFree(pmLock)
    /\ pmLock' = [pmLock EXCEPT !.writer = "discover"]
    /\ ds' = [ds EXCEPT !.pc = "store", !.base = pmPools]
    /\ UNCHANGED <<pmPools, pmCommitted, pmOps, ra, rp, gp, pmReads>>
    /\ UNCHANGED <<dtVars, pipeVars, monVars, arb>>

\* Lines 166-168: one insert of the loop.
DsStore ==
    /\ ds.pc = "store"
    /\ ds.next <= Len(ds.found)
    /\ Commit(ds.found[ds.next])
    /\ Installs(ds.found[ds.next].address, ds.read_at)
    /\ ds' = [ds EXCEPT !.next = @ + 1]
    /\ OtherWriterCommits
    /\ UNCHANGED <<pmLock, pmOps, rp, gp>>
    /\ UNCHANGED <<dtVars, pipeVars, monVars, arb>>

\* The addresses of the pools the call returns.
DsReturned == {ds.found[i].address : i \in 1..Len(ds.found)}

\* Line 170: the guard is dropped on return.
DsReturn ==
    /\ ds.pc = "store"
    /\ ds.next > Len(ds.found)
    /\ pmLock' = [pmLock EXCEPT !.writer = "none"]
    /\ ds' = [DsIdle EXCEPT !.prev =
                 IF pmOps < MaxPmOps
                 THEN Some([args |-> ds.args, reads |-> ds.reads,
                            returned |-> DsReturned, after |-> pmPools])
                 ELSE None]
    /\ UNCHANGED <<pmPools, pmCommitted, pmOps, ra, rp, gp, pmReads>>
    /\ UNCHANGED <<dtVars, pipeVars, monVars, arb>>

\* ---- refresh_all ----

RaIdle == [pc |-> "idle", snap |-> EmptyMap, results |-> <<>>, next |-> 1, clean |-> TRUE,
           read_at |-> 0]

\* Lines 257-261: the snapshot taken under the read lock.
RaSnapshot ==
    /\ ra.pc = "idle"
    /\ pmOps < MaxPmOps
    /\ ReadFree(pmLock)
    /\ ra' = [RaIdle EXCEPT !.pc = "fetch", !.snap = pmPools]
    /\ pmOps' = pmOps + 1
    /\ UNCHANGED <<pmPools, pmLock, pmCommitted, ds, rp, gp, pmReads>>
    /\ UNCHANGED <<dtVars, pipeVars, monVars, arb>>

\* Lines 264-331: join_all over one future per pool of the snapshot.
RaFetch ==
    /\ ra.pc = "fetch"
    /\ LET order == SortedSeq(DOMAIN ra.snap) IN
       \E reads \in [DOMAIN ra.snap -> V3Reads \cup V2Reads] :
         /\ \A a \in DOMAIN ra.snap : reads[a] \in ReadsFor(ra.snap[a])
         /\ ra' = [ra EXCEPT !.pc = "lock", !.read_at = pmReads.next,
                     !.results = [i \in 1..Len(order) |->
                         [addr |-> order[i], read |-> reads[order[i]],
                          updated |-> RefreshUpdate(ra.snap[order[i]], reads[order[i]])]]]
    /\ ReadsUpstream
    /\ UNCHANGED <<pmPools, pmLock, pmCommitted, pmOps, ds, rp, gp>>
    /\ UNCHANGED <<dtVars, pipeVars, monVars, arb>>

\* Line 334: self.pools.write().await
RaLock ==
    /\ ra.pc = "lock"
    /\ WriteFree(pmLock)
    /\ pmLock' = [pmLock EXCEPT !.writer = "refresh_all"]
    /\ ra' = [ra EXCEPT !.pc = "store"]
    /\ UNCHANGED <<pmPools, pmCommitted, pmOps, ds, rp, gp, pmReads>>
    /\ UNCHANGED <<dtVars, pipeVars, monVars, arb>>

\* A commit loop that also stores a zeroed record for a pool without update.
ApplyResultZeroOnFail(e) ==
    IF IsSome(e.updated) THEN Commit(e.updated[1])
    ELSE Commit([ra.snap[e.addr] EXCEPT !.reserve0 = 0, !.reserve1 = 0, !.liquidity = 0])

\* Lines 336-338: if let Some(p) = updated { pools.insert(addr, p) }
ApplyResult(e) ==
    IF IsSome(e.updated) THEN Commit(e.updated[1])
    ELSE UNCHANGED <<pmPools, pmCommitted>>

\* Lines 335-339: one iteration of the commit loop.
RaStore ==
    /\ ra.pc = "store"
    /\ ra.next <= Len(ra.results)
    /\ ApplyResult(ra.results[ra.next])
    /\ IF IsSome(ra.results[ra.next].updated)
       THEN Installs(ra.results[ra.next].addr, ra.read_at)
       ELSE UNCHANGED pmReads
    /\ ra' = [ra EXCEPT !.next = @ + 1]
    /\ RefreshCommits
    /\ UNCHANGED <<pmLock, pmOps, rp, gp>>
    /\ UNCHANGED <<dtVars, pipeVars, monVars, arb>>

\* Line 340: the write guard is dropped; the call has completed.
RaUnlock ==
    /\ ra.pc = "store"
    /\ ra.next > Len(ra.results)
    /\ pmLock' = [pmLock EXCEPT !.writer = "none"]
    /\ ra' = [ra EXCEPT !.pc = "done"]
    /\ UNCHANGED <<pmPools, pmCommitted, pmOps, ds, rp, gp, pmReads>>
    /\ UNCHANGED <<dtVars, pipeVars, monVars, arb>>

\* The caller goes on.
RaReturn ==
    /\ ra.pc = "done"
    /\ ra' = RaIdle
    /\ UNCHANGED <<pmPools, pmLock, pmCommitted, pmOps, ds, rp, gp, pmReads>>
    /\ UNCHANGED <<dtVars, pipeVars, monVars, arb>>

\* ---- refresh_pool(addr) ----

RpIdle == [pc |-> "idle", addr |-> 0, pool |-> None, updated |-> None, read_at |-> 0]

\* Lines 344-349: look the pool up under the read lock; return if unknown.
RpLookup ==
    /\ rp.pc = "idle"
    /\ pmOps < MaxPmOps
    /\ ReadFree(pmLock)
    /\ \E a \in PoolAddrs :
         rp' = IF a \in DOMAIN pmPools
               THEN [pc |-> "fetch", addr |-> a, pool |-> Some(pmPools[a]), updated |-> None,
                     read_at |-> 0]
               ELSE RpIdle
    /\ pmOps' = pmOps + 1
    /\ UNCHANGED <<pmPools, pmLock, pmCommitted, ds, ra, gp, pmReads>>
    /\ UNCHANGED <<dtVars, pipeVars, monVars, arb>>

\* Lines 351-368: the reserve read; lines 370: nothing to store on None.
RpFetch ==
    /\ rp.pc = "fetch"
    /\ \E read \in ReadsFor(rp.pool[1]) :
         LET u == RefreshPoolUpdate(rp.pool[1], read) IN
         rp' = IF IsSome(u)
               THEN [rp EXCEPT !.pc = "lock", !.updated = u, !.read_at = pmReads.next]
               ELSE RpIdle
    /\ ReadsUpstream
    /\ UNCHANGED <<pmPools, pmLock, pmCommitted, pmOps, ds, ra, gp>>
    /\ UNCHANGED <<dtVars, pipeVars, monVars, arb>>

\* Line 371: self.pools.write().await
RpLock ==
    /\ rp.pc = "lock"
    /\ WriteFree(pmLock)
    /\ pmLock' = [pmLock EXCEPT !.writer = "refresh_pool"]
    /\ rp' = [rp EXCEPT !.pc = "store"]
    /\ UNCHANGED <<pmPools, pmCommitted, pmOps, ds, ra, gp, pmReads>>
    /\ UNCHANGED <<dtVars, pipeVars, monVars, arb>>

\* Lines 372-373: insert, then the guard is dropped.
RpStore ==
    /\ rp.pc = "store"
    /\ Commit(rp.updated[1])
    /\ Installs(rp.addr, rp.read_at)
    /\ pmLock' = [pmLock EXCEPT !.writer = "none"]
    /\ rp' = RpIdle
    /\ OtherWriterCommits
    /\ RefreshCommits
    /\ UNCHANGED <<pmOps, gp>>
    /\ UNCHANGED <<dtVars, pipeVars, monVars, arb>>

\* ---- get_pools(token0, token1) ----

GpIdle == [pc |-> "idle", todo |-> <<>>, cur |-> None, result |-> <<>>]

MatchesPair(p, t0, t1) ==
    (p.token0 = t0 /\ p.token1 = t1) \/ (p.token0 = t1 /\ p.token1 = t0)

\* Line 378: the read lock is taken; 379-383: the values that pass the filter.
GpLock ==
    /\ gp.pc = "idle"
    /\ ReadFree(pmLock)
    /\ pmLock' = [pmLock EXCEPT !.readers = @ \cup {"get_pools"}]
    /\ \E args \in TokenArgs :
         gp' = [GpIdle EXCEPT !.pc = "scan",
                  !.todo = SortedSeq({a \in DOMAIN pmPools :
                                         MatchesPair(pmPools[a], args[1], args[2])})]
    /\ UNCHANGED <<pmPools, pmCommitted, pmOps, ds, ra, rp, pmReads>>
    /\ UNCHANGED <<dtVars, pipeVars, monVars, arb>>

\* Line 384, .cloned(): the copy of one record starts (reserve0 is copied).
GpCloneFirst ==
    /\ gp.pc = "scan"
    /\ gp.todo # <<>>
    /\ gp.cur = None
    /\ gp' = [gp EXCEPT !.cur = Some(pmPools[Head(gp.todo)])]
    /\ UNCHANGED <<pmPools, pmLock, pmCommitted, pmOps, ds, ra, rp, pmReads>>
    /\ UNCHANGED <<dtVars, pipeVars, monVars, arb>>

\* Line 384, .cloned(): the copy ends (reserve1 and liquidity are copied).
GpCloneRest ==
    /\ gp.pc = "scan"
    /\ gp.todo # <<>>
    /\ gp.cur # None
    /\ LET now == pmPools[Head(gp.todo)]
           copy == [gp.cur[1] EXCEPT !.reserve1 = now.reserve1, !.liquidity = now.liquidity]
       IN gp' = [gp EXCEPT !.result = Append(@, copy), !.todo = Tail(@), !.cur = None]
    /\ UNCHANGED <<pmPools, pmLock, pmCommitted, pmOps, ds, ra, rp, pmReads>>
    /\ UNCHANGED <<dtVars, pipeVars, monVars, arb>>

\* Line 386: the guard is dropped and the Vec returned.
GpUnlock ==
    /\ gp.pc = "scan"
    /\ gp.todo = <<>>
    /\ pmLock' = [pmLock EXCEPT !.readers = @ \ {"get_pools"}]
    /\ gp' = [gp EXCEPT !.pc = "ret"]
    /\ UNCHANGED <<pmPools, pmCommitted, pmOps, ds, ra, rp, pmReads>>
    /\ UNCHANGED <<dtVars, pipeVars, monVars, arb>>

\* The caller consumes the result.
GpReturn ==
    /\ gp.pc = "ret"
    /\ gp' = GpIdle
    /\ UNCHANGED <<pmPools, pmLock, pmCommitted, pmOps, ds, ra, rp, pmReads>>
    /\ UNCHANGED <<dtVars, pipeVars, monVars, arb>>

PmInit ==
    /\ pmPools = EmptyMap
    /\ pmLock = LockFree
    /\ pmCommitted = [a \in PoolAddrs |-> {}]
    /\ pmOps = 0
    /\ pmReads = [next |-> 1, installed |-> [a \in PoolAddrs |-> 0],
                  newest |-> [a \in PoolAddrs |-> 0]]
    /\ ds = DsIdle
    /\ ra = RaIdle
    /\ rp = RpIdle
    /\ gp = GpIdle

PmStep ==
    \/ DsFetch \/ DsLock \/ DsStore \/ DsReturn
    \/ RaSnapshot \/ RaFetch \/ RaLock \/ RaStore \/ RaUnlock \/ RaReturn
    \/ RpLookup \/ RpFetch \/ RpLock \/ RpStore
    \/ GpLock \/ GpCloneFirst \/ GpCloneRest \/ GpUnlock \/ GpReturn


\* ------------------------------------------------------------------------
\* Part 2. The detector's pool table (detector/multi_threaded.rs)
\* ------------------------------------------------------------------------

\* Bound: how many load_pools / update_pool calls a run starts.
MaxDtOps == 3

DtAddrs == {21, 22}
DtReserves == {100, 200}

\* The (token0, token1) pairs of the PoolState records a caller can build:
\* load_pools takes the record as given, in either order and over any pair.
DtTokenPairs == {<<1, 2>>, <<2, 1>>, <<1, 3>>}

\* The PoolState records a caller can hand to load_pools, at 30 bps.
DtCandidates ==
    {[address |-> a, token0 |-> t[1], token1 |-> t[2], reserve0 |-> r0, reserve1 |-> r1,
      fee |-> 30] : a \in DtAddrs, t \in DtTokenPairs, r0 \in DtReserves, r1 \in DtReserves}

\* The pairs a caller can hand to update_pool.
DtUpdates == {<<100, 200>>, <<200, 100>>}

ShardFree == [writer |-> FALSE, readers |-> 0]

\* DashMap::get can take the shard's read lock.
ShardReadFree(l) == ~l.writer

\* DashMap::get_mut / insert can take the shard's write lock.
ShardWriteFree(l) == ~l.writer /\ l.readers = 0

\* A push that starts a fresh Vec on every call.
IndexPushFresh(index, token, addr) == MapInsert(index, token, <<addr>>)

\* token_to_pools.entry(token).or_insert_with(Vec::new).push(addr)
IndexPush(index, token, addr) ==
    MapInsert(index, token,
              IF token \in DOMAIN index THEN Append(index[token], addr) ELSE <<addr>>)

\* ---- load_pools(vec![pool]) ----

LpIdle == [pc |-> "idle", pool |-> None]

\* Lines 138-141: token_to_pools.entry(token0).or_insert_with(Vec::new).push(addr)
LpIndexToken0 ==
    /\ lp.pc = "idle"
    /\ dtOps < MaxDtOps
    /\ \E pool \in DtCandidates :
         /\ dtIndex' = IndexPush(dtIndex, pool.token0, pool.address)
         /\ lp' = [pc |-> "token1", pool |-> Some(pool)]
    /\ dtOps' = dtOps + 1
    /\ UNCHANGED <<dtPools, dtLock, dtCommitted, up, lk>>
    /\ UNCHANGED <<pmVars, pipeVars, monVars, arb>>

\* Lines 142-145: token_to_pools.entry(token1).or_insert_with(Vec::new).push(addr)
LpIndexToken1 ==
    /\ lp.pc = "token1"
    /\ dtIndex' = IndexPush(dtIndex, lp.pool[1].token1, lp.pool[1].address)
    /\ lp' = [lp EXCEPT !.pc = "insert"]
    /\ UNCHANGED <<dtPools, dtLock, dtCommitted, dtOps, up, lk>>
    /\ UNCHANGED <<pmVars, pipeVars, monVars, arb>>

\* Line 147: self.pools.insert(pool_addr, pool)
LpInsert ==
    /\ lp.pc = "insert"
    /\ LET p == lp.pool[1] IN
       /\ ShardWriteFree(dtLock[p.address])
       /\ dtPools' = MapInsert(dtPools, p.address, p)
       /\ dtCommitted' = [dtCommitted EXCEPT ![p.address] = @ \cup {<<p.reserve0, p.reserve1>>}]
    /\ lp' = LpIdle
    /\ UNCHANGED <<dtIndex, dtLock, dtOps, up, lk>>
    /\ UNCHANGED <<pmVars, pipeVars, monVars, arb>>

\* ---- update_pool(address, reserve0, reserve1) ----

UpIdle == [pc |-> "idle", addr |-> 0, r0 |-> 0, r1 |-> 0]

\* Line 269: self.pools.get_mut(&address); an unknown address returns at once.
UpGetMut ==
    /\ up.pc = "idle"
    /\ dtOps < MaxDtOps
    /\ \E a \in DtAddrs, v \in DtUpdates :
         IF a \in DOMAIN dtPools
         THEN /\ ShardWriteFree(dtLock[a])
              /\ dtLock' = [dtLock EXCEPT ![a].writer = TRUE]
              /\ up' = [pc |-> "reserve0", addr |-> a, r0 |-> v[1], r1 |-> v[2]]
         ELSE UNCHANGED <<dtLock, up>>
    /\ dtOps' = dtOps + 1
    /\ UNCHANGED <<dtPools, dtIndex, dtCommitted, lp, lk>>
    /\ UNCHANGED <<pmVars, pipeVars, monVars, arb>>

\* Line 270: pool.reserve0 = reserve0
UpWriteReserve0 ==
    /\ up.pc = "reserve0"
    /\ dtPools' = [dtPools EXCEPT ![up.addr].reserve0 = up.r0]
    /\ up' = [up EXCEPT !.pc = "reserve1"]
    /\ UNCHANGED <<dtIndex, dtLock, dtCommitted, dtOps, lp, lk>>
    /\ UNCHANGED <<pmVars, pipeVars, monVars, arb>>

\* Line 271: pool.reserve1 = reserve1; the pair is now committed.
UpWriteReserve1 ==
    /\ up.pc = "reserve1"
    /\ dtPools' = [dtPools EXCEPT ![up.addr].reserve1 = up.r1]
    /\ dtCommitted' = [dtCommitted EXCEPT ![up.addr] = @ \cup {<<up.r0, up.r1>>}]
    /\ up' = [up EXCEPT !.pc = "unlock"]
    /\ UNCHANGED <<dtIndex, dtLock, dtOps, lp, lk>>
    /\ UNCHANGED <<pmVars, pipeVars, monVars, arb>>

\* Lines 272-273: last_update is stamped and the RefMut dropped.
UpDrop ==
    /\ up.pc = "unlock"
    /\ dtLock' = [dtLock EXCEPT ![up.addr].writer = FALSE]
    /\ up' = UpIdle
    /\ UNCHANGED <<dtPools, dtIndex, dtCommitted, dtOps, lp, lk>>
    /\ UNCHANGED <<pmVars, pipeVars, monVars, arb>>

\* ---- a worker's lookup of one pool (find_arbitrage_paths) ----

LkIdle == [pc |-> "idle", addr |-> 0, pair |-> None]

\* Lines 294 / 306: pools.get(addr) returns a Ref holding the shard's read lock.
LkGet ==
    /\ lk.pc = "idle"
    /\ \E a \in DOMAIN dtPools :
         /\ ShardReadFree(dtLock[a])
         /\ dtLock' = [dtLock EXCEPT ![a].readers = @ + 1]
         /\ lk' = [pc |-> "held", addr |-> a, pair |-> None]
    /\ UNCHANGED <<dtPools, dtIndex, dtCommitted, dtOps, lp, up>>
    /\ UNCHANGED <<pmVars, pipeVars, monVars, arb>>

\* Lines 430-434: simulate_swap_out reads (reserve0, reserve1) through the Ref.
LkRead ==
    /\ lk.pc = "held"
    /\ lk.pair = None
    /\ lk' = [lk EXCEPT !.pair = Some(<<dtPools[lk.addr].reserve0, dtPools[lk.addr].reserve1>>)]
    /\ UNCHANGED <<dtPools, dtIndex, dtLock, dtCommitted, dtOps, lp, up>>
    /\ UNCHANGED <<pmVars, pipeVars, monVars, arb>>

\* The Ref goes out of scope.
LkDrop ==
    /\ lk.pc = "held"
    /\ lk.pair # None
    /\ dtLock' = [dtLock EXCEPT ![lk.addr].readers = @ - 1]
    /\ lk' = LkIdle
    /\ UNCHANGED <<dtPools, dtIndex, dtCommitted, dtOps, lp, up>>
    /\ UNCHANGED <<pmVars, pipeVars, monVars, arb>>

DtInit ==
    /\ dtPools = EmptyMap
    /\ dtIndex = EmptyMap
    /\ dtLock = [a \in DtAddrs |-> ShardFree]
    /\ dtCommitted = [a \in DtAddrs |-> {}]
    /\ dtOps = 0
    /\ lp = LpIdle
    /\ up = UpIdle
    /\ lk = LkIdle

DtStep ==
    \/ LpIndexToken0 \/ LpIndexToken1 \/ LpInsert
    \/ UpGetMut \/ UpWriteReserve0 \/ UpWriteReserve1 \/ UpDrop
    \/ LkGet \/ LkRead \/ LkDrop

\* ------------------------------------------------------------------------
\* Part 3. Dispatcher and workers (detector/multi_threaded.rs, start / stop)
\* ------------------------------------------------------------------------

\* Bound: how many tx events the ingestor side produces in a run.
MaxTx == 2

\* Bound: the capacity of the work channel; the code's bounded(10_000), scaled.
WorkCap == 1

\* Bound: config.batch_size (64 by default), scaled.
BatchSize == 2

\* Bound: the size of a large result of find_arbitrage_paths (one opportunity
\* per pair of index entries, and the index vectors grow without limit).
BurstOpps == 1000001

\* worker_id as u64 * 1_000_000
IdStride == 1000000

\* The worker ids, 0 .. num_workers - 1, for two workers (the default
\* configuration has at least two).
Workers == {0, 1}

TxIds == 1..MaxTx

\* A MempoolTx as the workers see it: not a swap, a swap without decoded
\* swap_info, or a swap with swap_info.
TxKinds == {"plain", "bare", "swap"}

IsSwap(tx) == tx.kind \in {"bare", "swap"}
HasSwapInfo(tx) == tx.kind = "swap"

\* How many opportunities find_arbitrage_paths returns for one trigger tx
\* (0 stands for None), and how many of them reach min_profit_wei.
OppCounts == {0, 1, BurstOpps}
ProfitableCounts(n) == {0, n}

FirstOppId(worker_id) == worker_id * IdStride

\* A worker that never advances opp_id.
NextOppIdStuck(opp_id, n) == opp_id

\* opp.id = opp_id; opp_id += 1, once per opportunity of the result.
NextOppId(opp_id, n) == opp_id + n

\* A try_recv that leaves the message in the channel.
RecvKeeps(q) == q

\* What try_recv leaves in the channel after it returned the head.
AfterRecv(q) == Tail(q)

\* The receivers of the work channel that still exist: start() drops its own
\* work_rx on return, each worker drops its clone when its closure returns.
LiveReceivers == {w \in Workers : wk[w].pc # "exited"}

\* A send that does not notice that the receivers are gone.
SendNeverFails(rx) == FALSE

\* work_tx.send returns Err: every receiver has been dropped.
SendFails(rx) == rx = {}

\* ---- the owner of the detector, and the ingestor side of tx_receiver ----

\* start(): running.store(true), the dispatcher and the workers are spawned.
Start ==
    /\ ~started
    /\ started' = TRUE
    /\ running' = TRUE
    /\ disp' = [pc |-> "check", tx |-> None]
    /\ wk' = [w \in Workers |->
                [pc |-> "check", batch |-> <<>>, idx |-> 1,
                 opp_id |-> FirstOppId(w), batchNo |-> 0]]
    /\ UNCHANGED <<txCount, ingestQ, workQ, stats, oppsSent, received, dropped, issued>>
    /\ UNCHANGED <<pmVars, dtVars, monVars, arb>>

\* stop(): running.store(false).
Stop ==
    /\ started
    /\ running
    /\ running' = FALSE
    /\ UNCHANGED <<started, txCount, ingestQ, workQ, disp, wk, stats, oppsSent,
                   received, dropped, issued>>
    /\ UNCHANGED <<pmVars, dtVars, monVars, arb>>

\* The ingestor sends one MempoolTx into the channel behind tx_receiver.
Ingest ==
    /\ txCount < MaxTx
    /\ \E k \in TxKinds :
         ingestQ' = Append(ingestQ, [id |-> txCount + 1, kind |-> k])
    /\ txCount' = txCount + 1
    /\ UNCHANGED <<running, started, workQ, disp, wk, stats, oppsSent, received,
                   dropped, issued>>
    /\ UNCHANGED <<pmVars, dtVars, monVars, arb>>

\* ---- the dispatcher thread ----

\* Line 171: while running.load(SeqCst)
DispCheck ==
    /\ disp.pc = "check"
    /\ disp' = [disp EXCEPT !.pc = IF running THEN "recv" ELSE "exited"]
    /\ UNCHANGED <<running, started, txCount, ingestQ, workQ, wk, stats, oppsSent,
                   received, dropped, issued>>
    /\ UNCHANGED <<pmVars, dtVars, monVars, arb>>

\* Lines 172-174: recv_timeout returned Ok(tx); txs_processed.fetch_add(1).
DispRecv ==
    /\ disp.pc = "recv"
    /\ ingestQ # <<>>
    /\ disp' = [pc |-> "send", tx |-> Some(Head(ingestQ))]
    /\ ingestQ' = Tail(ingestQ)
    /\ stats' = [stats EXCEPT !.txs_processed = @ + 1]
    /\ UNCHANGED <<running, started, txCount, workQ, wk, oppsSent, received, dropped,
                   issued>>
    /\ UNCHANGED <<pmVars, dtVars, monVars, arb>>

\* Line 177: recv_timeout returned Err after 10 ms; continue.
DispTimeout ==
    /\ disp.pc = "recv"
    /\ ingestQ = <<>>
    /\ disp' = [disp EXCEPT !.pc = "check"]
    /\ UNCHANGED <<running, started, txCount, ingestQ, workQ, wk, stats, oppsSent,
                   received, dropped, issued>>
    /\ UNCHANGED <<pmVars, dtVars, monVars, arb>>

\* Line 175: work_tx.send(tx) completes. While the channel is full and a
\* receiver exists the call blocks: the action is not enabled.
DispSend ==
    /\ disp.pc = "send"
    /\ ~SendFails(LiveReceivers)
    /\ Len(workQ) < WorkCap
    /\ workQ' = Append(workQ, disp.tx[1])
    /\ disp' = [pc |-> "check", tx |-> None]
    /\ UNCHANGED <<running, started, txCount, ingestQ, wk, stats, oppsSent, received,
                   dropped, issued>>
    /\ UNCHANGED <<pmVars, dtVars, monVars, arb>>

\* Line 175: work_tx.send(tx) returns Err (disconnected); .ok() discards it.
DispSendErr ==
    /\ disp.pc = "send"
    /\ SendFails(LiveReceivers)
    /\ dropped' = dropped \cup {disp.tx[1].id}
    /\ disp' = [pc |-> "check", tx |-> None]
    /\ UNCHANGED <<running, started, txCount, ingestQ, workQ, wk, stats, oppsSent,
                   received, issued>>
    /\ UNCHANGED <<pmVars, dtVars, monVars, arb>>

\* ---- worker thread w ----

\* Line 208: while running.load(SeqCst); line 210: batch.clear().
WCheck(w) ==
    /\ wk[w].pc = "check"
    /\ wk' = [wk EXCEPT ![w].pc = IF running THEN "collect" ELSE "exited",
                        ![w].batch = <<>>, ![w].idx = 1]
    /\ UNCHANGED <<running, started, txCount, ingestQ, workQ, disp, stats, oppsSent,
                   received, dropped, issued>>
    /\ UNCHANGED <<pmVars, dtVars, monVars, arb>>

\* Lines 211-214: try_recv returned Ok(tx); batch.push(tx).
WTryRecv(w) ==
    /\ wk[w].pc = "collect"
    /\ Len(wk[w].batch) < BatchSize
    /\ workQ # <<>>
    /\ LET tx == Head(workQ) IN
       /\ wk' = [wk EXCEPT ![w].batch = Append(@, tx)]
       /\ received' = [received EXCEPT ![tx.id] = Append(@, w)]
    /\ workQ' = AfterRecv(workQ)
    /\ UNCHANGED <<running, started, txCount, ingestQ, disp, stats, oppsSent, dropped,
                   issued>>
    /\ UNCHANGED <<pmVars, dtVars, monVars, arb>>

\* Lines 211-216: the batch is full or try_recv returned Err, and the batch is
\* not empty: go on to process it.
WBatchReady(w) ==
    /\ wk[w].pc = "collect"
    /\ Len(wk[w].batch) = BatchSize \/ workQ = <<>>
    /\ wk[w].batch # <<>>
    /\ wk' = [wk EXCEPT ![w].pc = "process", ![w].batchNo = @ + 1]
    /\ UNCHANGED <<running, started, txCount, ingestQ, workQ, disp, stats, oppsSent,
                   received, dropped, issued>>
    /\ UNCHANGED <<pmVars, dtVars, monVars, arb>>

\* Lines 219-222: the batch is empty; sleep 50 us and continue.
WSleep(w) ==
    /\ wk[w].pc = "collect"
    /\ workQ = <<>>
    /\ wk[w].batch = <<>>
    /\ wk' = [wk EXCEPT ![w].pc = "check"]
    /\ UNCHANGED <<running, started, txCount, ingestQ, workQ, disp, stats, oppsSent,
                   received, dropped, issued>>
    /\ UNCHANGED <<pmVars, dtVars, monVars, arb>>

\* Lines 226-228: if !tx.is_swap { continue }
WSkip(w) ==
    /\ wk[w].pc = "process"
    /\ wk[w].idx <= Len(wk[w].batch)
    /\ ~IsSwap(wk[w].batch[wk[w].idx])
    /\ wk' = [wk EXCEPT ![w].idx = @ + 1]
    /\ UNCHANGED <<running, started, txCount, ingestQ, workQ, disp, stats, oppsSent,
                   received, dropped, issued>>
    /\ UNCHANGED <<pmVars, dtVars, monVars, arb>>

\* Lines 230-253: one swap tx of the batch. With swap_info, the n opportunities
\* found get the ids opp_id, opp_id + 1, ..; k of them are sent on.
\* opportunities_found is incremented once per swap tx.
WProcess(w) ==
    /\ wk[w].pc = "process"
    /\ wk[w].idx <= Len(wk[w].batch)
    /\ LET tx == wk[w].batch[wk[w].idx] IN
       /\ IsSwap(tx)
       /\ \E n \in (IF HasSwapInfo(tx) THEN OppCounts ELSE {0}) :
          \E k \in ProfitableCounts(n) :
            /\ wk' = [wk EXCEPT ![w].idx = @ + 1,
                                ![w].opp_id = NextOppId(@, n)]
            /\ issued' = [issued EXCEPT ![w] =
                            IF n = 0 THEN @
                            ELSE Append(@, [first |-> wk[w].opp_id, count |-> n,
                                            batchNo |-> wk[w].batchNo, tx |-> tx.id])]
            /\ stats' = [stats EXCEPT !.profitable_count = @ + k,
                                      !.opportunities_found = @ + 1]
            /\ oppsSent' = oppsSent + k
    /\ UNCHANGED <<running, started, txCount, ingestQ, workQ, disp, received, dropped>>
    /\ UNCHANGED <<pmVars, dtVars, monVars, arb>>

\* Line 224: the for loop over the batch has ended.
WBatchDone(w) ==
    /\ wk[w].pc = "process"
    /\ wk[w].idx > Len(wk[w].batch)
    /\ wk' = [wk EXCEPT ![w].pc = "check"]
    /\ UNCHANGED <<running, started, txCount, ingestQ, workQ, disp, stats, oppsSent,
                   received, dropped, issued>>
    /\ UNCHANGED <<pmVars, dtVars, monVars, arb>>

PipeInit ==
    /\ running = FALSE
    /\ started = FALSE
    /\ txCount = 0
    /\ ingestQ = <<>>
    /\ workQ = <<>>
    /\ disp = [pc |-> "unborn", tx |-> None]
    /\ wk = [w \in Workers |->
               [pc |-> "unborn", batch |-> <<>>, idx |-> 1, opp_id |-> 0, batchNo |-> 0]]
    /\ stats = [txs_processed |-> 0, opportunities_found |-> 0, profitable_count |-> 0]
    /\ oppsSent = 0
    /\ received = [t \in TxIds |-> <<>>]
    /\ dropped = {}
    /\ issued = [w \in Workers |-> <<>>]

DispStep == DispCheck \/ DispRecv \/ DispTimeout \/ DispSend \/ DispSendErr

WorkerStep(w) ==
    \/ WCheck(w) \/ WTryRecv(w) \/ WBatchReady(w) \/ WSleep(w)
    \/ WSkip(w) \/ WProcess(w) \/ WBatchDone(w)

PipeStep ==
    \/ Start \/ Stop \/ Ingest
    \/ DispStep
    \/ \E w \in Workers : WorkerStep(w)

\* ------------------------------------------------------------------------
\* Part 4. The mempool monitors (mempool/ultra_ws.rs)
\* ------------------------------------------------------------------------

\* Bound: how many upstream messages the two streams deliver in a run.
MaxMsgs == 3

\* Bound: MempoolConfig.batch_size (32 by default), scaled.
MonBatchSize == 2

Monitors == {"mon", "enh"}

\* A text frame is its UTF-8 bytes. RESULT_PATTERN is "result":"0x .
ResultPattern == <<34, 114, 101, 115, 117, 108, 116, 34, 58, 34, 48, 120>>

\* str::find: the byte offset of the first occurrence of pat in text, or None.
Find(text, pat) ==
    LET hits == {i \in 0..(Len(text) - Len(pat)) : SubSeq(text, i + 1, i + Len(pat)) = pat}
    IN IF hits = {} THEN None ELSE Some(CHOOSE i \in hits : \A j \in hits : i <= j)

\* str::is_char_boundary: offset 0, the end, or a byte that is not a UTF-8
\* continuation byte (10xxxxxx).
IsCharBoundary(text, i) ==
    \/ i = 0
    \/ i = Len(text)
    \/ i < Len(text) /\ ~(128 <= text[i + 1] /\ text[i + 1] < 192)

\* The value of one hex digit as the hex crate reads it (0-9, a-f, A-F), or -1.
HexVal(c) ==
    IF 48 <= c /\ c <= 57 THEN c - 48
    ELSE IF 97 <= c /\ c <= 102 THEN c - 87
    ELSE IF 65 <= c /\ c <= 70 THEN c - 55
    ELSE -1

\* hex::decode: Err (None) on an odd length or a character that is no hex
\* digit, else one byte per pair of digits.
HexDecode(str) ==
    IF Len(str) % 2 # 0 THEN None
    ELSE IF \E i \in 1..Len(str) : HexVal(str[i]) = -1 THEN None
    ELSE Some([i \in 1..(Len(str) \div 2) |->
                  16 * HexVal(str[2 * i - 1]) + HexVal(str[2 * i])])

\* The outcome of a call that panicked in a str slice (the task unwinds).
SlicePanic == Some(<<-1>>)

\* The H256 a decoded slice becomes, if it has 32 bytes.
HashOfBytes(decoded) ==
    IF decoded = None THEN None
    ELSE IF Len(decoded[1]) = 32 THEN decoded ELSE None

\* Lines 197-205: the slice &text[hash_start..hash_start + 64] and its decoding.
HashAt(text, hash_start) ==
    IF Len(text) < hash_start + 64 THEN None
    ELSE IF ~(IsCharBoundary(text, hash_start) /\ IsCharBoundary(text, hash_start + 64))
    THEN SlicePanic
    ELSE HashOfBytes(HexDecode(SubSeq(text, hash_start + 1, hash_start + 64)))

\* Lines 196-197: start + RESULT_PATTERN.len(), if the pattern occurs.
HashStart(text) ==
    IF Find(text, ResultPattern) = None THEN None
    ELSE Some(Find(text, ResultPattern)[1] + Len(ResultPattern))

\* extract_tx_hash_fast: the hash carried by the frame, None, or a panic.
ExtractTxHashFast(text) ==
    IF HashStart(text) = None THEN None ELSE HashAt(text, HashStart(text)[1])

\* n copies of the byte c.
Repeat(c, n) == [i \in 1..n |-> c]

\* The H256 whose 64 hex digits are all the digit n.
TxHash(n) == Repeat(17 * n, 32)

\* The notification that carries the hash whose 64 hex digits are all the
\* digit n: {"params":{"result":"0xnnn...n"}} .
Notification(n) ==
    <<123, 34, 112, 97, 114, 97, 109, 115, 34, 58, 123>> \o ResultPattern \o
    Repeat(48 + n, 64) \o <<34, 125, 125>>

\* The text frames a hash subscription can deliver as its n-th message: a
\* notification, the reply to eth_subscribe (a short subscription id), a
\* result that is not hex, a frame without a result, and a result whose 64th
\* byte is the first byte of a two-byte character.
TextFrames(n) ==
    {Notification(n),
     <<123>> \o ResultPattern \o Repeat(48 + n, 32) \o <<34, 125>>,
     <<123>> \o ResultPattern \o Repeat(122, 64) \o <<34, 125>>,
     <<123, 125>>,
     <<123>> \o ResultPattern \o Repeat(48 + n, 63) \o <<195, 169, 34, 125>>}

\* The swap selectors of is_likely_swap, byte by byte.
KnownSelectors ==
    {<<56, 237, 23, 57>>, <<127, 243, 106, 181>>, <<24, 203, 175, 229>>,
     <<192, 75, 141, 89>>, <<184, 88, 24, 63>>, <<65, 75, 243, 137>>,
     <<54, 147, 216, 164>>, <<36, 133, 107, 195>>}

\* The calldata of the transactions the enhanced subscription delivers:
\* length and first four bytes (swapExactTokensForTokens, ERC-20 transfer,
\* and a selector that starts with a zero byte).
TxInputs ==
    {[len |-> 0, selector |-> <<0, 0, 0, 0>>]} \cup
    {[len |-> l, selector |-> s] :
        l \in {4, 68},
        s \in {<<56, 237, 23, 57>>, <<169, 5, 156, 187>>, <<0, 0, 0, 1>>}}

\* is_likely_swap
IsLikelySwap(input) ==
    IF input.len < 4 THEN FALSE
    ELSE input.selector \in KnownSelectors \/ input.selector[1] # 0

\* parse_swap_fast: None for call data shorter than 68 bytes, else a SwapInfo
\* whose fields are the constants the code writes (Address::zero() is 0).
ParseSwapFast(input) ==
    IF input.len < 68 THEN None
    ELSE Some([token_in |-> 0, token_out |-> 0, amount_in |-> 0, min_amount_out |-> 0,
               dex_type |-> "UniswapV2", pool_address |-> 0])

\* The MempoolTx process_batch builds for one hash.
HashOnlyTx(hash, receive_tsc, receive_ns) ==
    [hash |-> hash, first_seen_tsc |-> receive_tsc, first_seen_ns |-> receive_ns,
     is_swap |-> FALSE, swap_info |-> None, from |-> "mon"]

RECURSIVE ProcessBatch(_, _, _)
\* process_batch: one send per hash, in order, all with the same readings.
ProcessBatch(hashes, receive_tsc, receive_ns) ==
    IF hashes = <<>> THEN <<>>
    ELSE <<HashOnlyTx(Head(hashes), receive_tsc, receive_ns)>> \o
         ProcessBatch(Tail(hashes), receive_tsc, receive_ns)

\* Line 147 with a batch that is never found full.
BatchNeverFull(pending_hashes) == FALSE

\* Line 147: pending_hashes.len() >= self.config.batch_size.
BatchFull(pending_hashes) == Len(pending_hashes) >= MonBatchSize

\* ---- MempoolMonitor::start ----

\* Line 94: running.store(true); then connect_async is awaited.
MonStart ==
    /\ mon.pc = "idle"
    /\ mon' = [mon EXCEPT !.running = TRUE, !.pc = "connect"]
    /\ UNCHANGED <<enh, wire, clock, msgCount, outQ>>
    /\ UNCHANGED <<pmVars, dtVars, pipeVars, arb>>

\* Lines 112-124: connect and subscribe; either `?` returns the error.
MonConnect ==
    /\ mon.pc = "connect"
    /\ \/ /\ mon' = [mon EXCEPT !.pc = "loop"]
          /\ wire' = [wire EXCEPT !.mon = "open"]
       \/ /\ mon' = [mon EXCEPT !.pc = "failed"]
          /\ UNCHANGED wire
    /\ UNCHANGED <<enh, clock, msgCount, outQ>>
    /\ UNCHANGED <<pmVars, dtVars, pipeVars, arb>>

\* Line 129: while self.running.load(SeqCst); line 187: Ok(()).
MonCheck ==
    /\ mon.pc = "loop"
    /\ mon' = [mon EXCEPT !.pc = IF mon.running THEN "select" ELSE "returned"]
    /\ UNCHANGED <<enh, wire, clock, msgCount, outQ>>
    /\ UNCHANGED <<pmVars, dtVars, pipeVars, arb>>

\* Lines 131-156: a text frame arrives and the two clocks are read; its hash,
\* if any, joins the batch, and a full batch is processed and cleared. A
\* panic in extract_tx_hash_fast unwinds the task.
MonText ==
    /\ mon.pc = "select"
    /\ wire.mon = "open"
    /\ msgCount < MaxMsgs
    /\ \E text \in TextFrames(msgCount + 1) :
         LET h == ExtractTxHashFast(text)
             batch == IF IsSome(h) THEN Append(mon.pending, h[1]) ELSE mon.pending
             flush == IsSome(h) /\ BatchFull(batch)
         IN IF h = SlicePanic
            THEN /\ mon' = [mon EXCEPT !.pc = "panicked"]
                 /\ outQ' = outQ
            ELSE /\ mon' = [mon EXCEPT
                              !.pc = "loop",
                              !.pending = IF flush THEN <<>> ELSE batch,
                              !.extracted = IF IsSome(h)
                                            THEN Append(@, [hash |-> h[1], receive_tsc |-> clock,
                                                            receive_ns |-> clock])
                                            ELSE @]
                 /\ outQ' = IF flush THEN outQ \o ProcessBatch(batch, clock, clock) ELSE outQ
    /\ clock' = clock + 1
    /\ msgCount' = msgCount + 1
    /\ UNCHANGED <<enh, wire>>
    /\ UNCHANGED <<pmVars, dtVars, pipeVars, arb>>

\* Lines 158-164, 169: a binary frame, a ping (answered by a pong), or any
\* other frame: nothing changes.
MonOtherFrame ==
    /\ mon.pc = "select"
    /\ wire.mon = "open"
    /\ msgCount < MaxMsgs
    /\ mon' = [mon EXCEPT !.pc = "loop"]
    /\ clock' = clock + 1
    /\ msgCount' = msgCount + 1
    /\ UNCHANGED <<enh, wire, outQ>>
    /\ UNCHANGED <<pmVars, dtVars, pipeVars, arb>>

\* Lines 165-168: Err(e) => { error!(..); break; } and then line 187: Ok(()).
MonRecvError ==
    /\ mon.pc = "select"
    /\ wire.mon = "open"
    /\ msgCount < MaxMsgs
    /\ mon' = [mon EXCEPT !.pc = "returned"]
    /\ wire' = [wire EXCEPT !.mon = "ended"]
    /\ clock' = clock + 1
    /\ msgCount' = msgCount + 1
    /\ UNCHANGED <<enh, outQ>>
    /\ UNCHANGED <<pmVars, dtVars, pipeVars, arb>>

\* Lines 172-183: the 100 us sleep wins; a non-empty batch is processed.
MonTimer ==
    /\ mon.pc = "select"
    /\ IF mon.pending # <<>>
       THEN /\ outQ' = outQ \o ProcessBatch(mon.pending, clock, clock)
            /\ clock' = clock + 1
       ELSE UNCHANGED <<outQ, clock>>
    /\ mon' = [mon EXCEPT !.pc = "loop", !.pending = <<>>]
    /\ UNCHANGED <<enh, wire, msgCount>>
    /\ UNCHANGED <<pmVars, dtVars, pipeVars, arb>>

\* Lines 239-241: stop().
MonStop ==
    /\ mon.pc # "idle"
    /\ mon.running
    /\ mon' = [mon EXCEPT !.running = FALSE]
    /\ UNCHANGED <<enh, wire, clock, msgCount, outQ>>
    /\ UNCHANGED <<pmVars, dtVars, pipeVars, arb>>

\* ---- EnhancedMempoolMonitor::start_enhanced ----

\* Line 267: running.store(true); then connect_async is awaited.
EnhStart ==
    /\ enh.pc = "idle"
    /\ enh' = [enh EXCEPT !.running = TRUE, !.pc = "connect"]
    /\ UNCHANGED <<mon, wire, clock, msgCount, outQ>>
    /\ UNCHANGED <<pmVars, dtVars, pipeVars, arb>>

\* Lines 269-286: connect and subscribe; either `?` returns the error.
EnhConnect ==
    /\ enh.pc = "connect"
    /\ \/ /\ enh' = [enh EXCEPT !.pc = "loop"]
          /\ wire' = [wire EXCEPT !.enh = "open"]
       \/ /\ enh' = [enh EXCEPT !.pc = "failed"]
          /\ UNCHANGED wire
    /\ UNCHANGED <<mon, clock, msgCount, outQ>>
    /\ UNCHANGED <<pmVars, dtVars, pipeVars, arb>>

\* Line 289: while self.running.load(SeqCst); line 325: Ok(()).
EnhCheck ==
    /\ enh.pc = "loop"
    /\ enh' = [enh EXCEPT !.pc = IF enh.running THEN "await" ELSE "returned"]
    /\ UNCHANGED <<mon, wire, clock, msgCount, outQ>>
    /\ UNCHANGED <<pmVars, dtVars, pipeVars, arb>>

\* Lines 290-319: read.next().await yields a text frame holding a transaction.
EnhTx ==
    /\ enh.pc = "await"
    /\ wire.enh = "open"
    /\ msgCount < MaxMsgs
    /\ \E input \in TxInputs :
         LET is_swap == IsLikelySwap(input)
             swap_info == IF is_swap THEN ParseSwapFast(input) ELSE None
         IN outQ' = Append(outQ, [hash |-> TxHash(msgCount + 1), first_seen_tsc |-> clock,
                                  first_seen_ns |-> clock,
                                  is_swap |-> is_swap, swap_info |-> swap_info,
                                  from |-> "enh"])
    /\ clock' = clock + 1
    /\ msgCount' = msgCount + 1
    /\ enh' = [enh EXCEPT !.pc = "loop"]
    /\ UNCHANGED <<mon, wire>>
    /\ UNCHANGED <<pmVars, dtVars, pipeVars, arb>>

\* Lines 290, 297-299: read.next().await yields a text frame that holds no
\* transaction (the timestamp is still taken), or a frame that is not text, or
\* an error: the if-let does not match or the body sends nothing.
EnhOtherFrame ==
    /\ enh.pc = "await"
    /\ wire.enh = "open"
    /\ msgCount < MaxMsgs
    /\ \E isText \in BOOLEAN : clock' = IF isText THEN clock + 1 ELSE clock
    /\ msgCount' = msgCount + 1
    /\ enh' = [enh EXCEPT !.pc = "loop"]
    /\ UNCHANGED <<mon, wire, outQ>>
    /\ UNCHANGED <<pmVars, dtVars, pipeVars, arb>>

\* Line 290: read.next().await yields None: the stream has ended.
EnhStreamEnded ==
    /\ enh.pc = "await"
    /\ wire.enh = "ended"
    /\ enh' = [enh EXCEPT !.pc = "loop"]
    /\ UNCHANGED <<mon, wire, clock, msgCount, outQ>>
    /\ UNCHANGED <<pmVars, dtVars, pipeVars, arb>>

\* Lines 370-372: stop().
EnhStop ==
    /\ enh.pc # "idle"
    /\ enh.running
    /\ enh' = [enh EXCEPT !.running = FALSE]
    /\ UNCHANGED <<mon, wire, clock, msgCount, outQ>>
    /\ UNCHANGED <<pmVars, dtVars, pipeVars, arb>>

\* ---- upstream ----

\* The server closes the stream of monitor m: read.next() yields None from now on.
WireEnd(m) ==
    /\ wire[m] = "open"
    /\ wire' = [wire EXCEPT ![m] = "ended"]
    /\ UNCHANGED <<mon, enh, clock, msgCount, outQ>>
    /\ UNCHANGED <<pmVars, dtVars, pipeVars, arb>>

MonInit ==
    /\ mon = [running |-> FALSE, pc |-> "idle", pending |-> <<>>, extracted |-> <<>>]
    /\ enh = [running |-> FALSE, pc |-> "idle"]
    /\ wire = [m \in Monitors |-> "none"]
    /\ clock = 0
    /\ msgCount = 0
    /\ outQ = <<>>

\* The steps the monitor tasks take on their own (no frame has to arrive).
MonRunStep == MonConnect \/ MonCheck \/ MonTimer
EnhRunStep == EnhConnect \/ EnhCheck \/ EnhStreamEnded

MonStep ==
    \/ MonStart \/ MonStop \/ MonRunStep
    \/ MonText \/ MonOtherFrame \/ MonRecvError
    \/ EnhStart \/ EnhStop \/ EnhRunStep
    \/ EnhTx \/ EnhOtherFrame
    \/ \E m \in Monitors : WireEnd(m)

\* ------------------------------------------------------------------------
\* Part 5. The arbitrage searches (arbitrum/detector.rs, arbitrum/pools.rs,
\*         detector/multi_threaded.rs)
\* ------------------------------------------------------------------------

\* U256 values are kept as limbs base 256, least significant first, without
\* trailing zeros, since they exceed 32-bit integers. The operators on them
\* avoid deep recursion: carries are found by lookahead, and the sum of the
\* partial products and the long division take the limbs in halves.

\* Without the trailing zero limbs.
TrimLimbs(x) ==
    LET nonzero == {i \in 1..Len(x) : x[i] # 0}
    IN IF nonzero = {} THEN <<>>
       ELSE SubSeq(x, 1, CHOOSE i \in nonzero : \A j \in nonzero : j <= i)

\* U256::from(n), for n below 2^31.
Limbs(n) ==
    TrimLimbs(<<n % 256, (n \div 256) % 256, (n \div 65536) % 256, n \div 16777216>>)

\* The number of limbs of a U256: 256 bits.
U256Limbs == 32

\* The outcome of a U256 operation that panics ("arithmetic operation
\* overflow", "division by zero"); an operation on it panics too.
Panic == <<-1>>

\* A result that does not fit 256 bits is a panic.
Fit(x) == IF Len(x) > U256Limbs THEN Panic ELSE x

\* Limb i of x; zero beyond its limbs.
LimbAt(x, i) == IF 1 <= i /\ i <= Len(x) THEN x[i] ELSE 0

\* a < b on U256 values.
U256Less(a, b) ==
    IF Len(a) # Len(b) THEN Len(a) < Len(b)
    ELSE \E i \in 1..Len(a) : a[i] < b[i] /\ \A k \in (i + 1)..Len(a) : a[k] = b[k]

\* The limbs of a number given place by place as sums s[i] of two limbs: a
\* carry enters limb i when a lower place overflows and every place between
\* passes the carry on.
Carried(s) ==
    TrimLimbs([i \in DOMAIN s |->
                  (s[i] + (IF \E j \in 1..(i - 1) :
                                  s[j] >= 256 /\ \A k \in (j + 1)..(i - 1) : s[k] >= 255
                           THEN 1 ELSE 0)) % 256])

\* The limbs of a number given place by place as differences d[i] of two
\* limbs: a borrow enters limb i when a lower place falls below zero and every
\* place between passes the borrow on.
Borrowed(d) ==
    TrimLimbs([i \in DOMAIN d |->
                  (d[i] - (IF \E j \in 1..(i - 1) :
                                  d[j] < 0 /\ \A k \in (j + 1)..(i - 1) : d[k] <= 0
                           THEN 1 ELSE 0) + 256) % 256])

\* x + y on limbs of any length.
AddLimbs(x, y) ==
    Carried([i \in 1..((IF Len(x) > Len(y) THEN Len(x) ELSE Len(y)) + 1) |->
                LimbAt(x, i) + LimbAt(y, i)])

\* x * d on limbs of any length, for one limb d (0..256): the low bytes of
\* the products plus their high bytes one place up.
TimesLimb(x, d) ==
    Carried([i \in 1..(Len(x) + 1) |->
                ((LimbAt(x, i) * d) % 256) + ((LimbAt(x, i - 1) * d) \div 256)])

\* a + b, which panics when the sum does not fit 256 bits.
U256Add(a, b) == IF a = Panic \/ b = Panic THEN Panic ELSE Fit(AddLimbs(a, b))

\* a - b, which panics when b > a.
U256Sub(a, b) ==
    IF a = Panic \/ b = Panic THEN Panic
    ELSE IF U256Less(a, b) THEN Panic
    ELSE Borrowed([i \in 1..Len(a) |-> a[i] - LimbAt(b, i)])

\* The sum of the products of a with the limbs lo..hi of b, each shifted to
\* its place.
RECURSIVE MulRange(_, _, _, _)
MulRange(a, b, lo, hi) ==
    IF lo = hi THEN [i \in 1..(lo - 1) |-> 0] \o TimesLimb(a, b[lo])
    ELSE AddLimbs(MulRange(a, b, lo, (lo + hi) \div 2),
                  MulRange(a, b, ((lo + hi) \div 2) + 1, hi))

\* a * b, which panics when the product does not fit 256 bits.
U256Mul(a, b) ==
    IF a = Panic \/ b = Panic THEN Panic
    ELSE IF a = <<>> \/ b = <<>> THEN <<>>
    ELSE Fit(TrimLimbs(MulRange(a, b, 1, Len(b))))

\* The leading limbs of x seen from place n: three of them (two for n = 1).
LeadOf(x, n) ==
    IF n >= 2 THEN LimbAt(x, n + 1) * 65536 + LimbAt(x, n) * 256 + LimbAt(x, n - 1)
    ELSE LimbAt(x, 2) * 256 + LimbAt(x, 1)

\* The limb q with q * b <= r1 < (q + 1) * b, for r1 < 256 * b, looked for
\* between the bounds that the leading limbs of r1 and of b give.
QuotientLimbIn(b, r1, lead_r, lead_b) ==
    CHOOSE q \in (lead_r \div (lead_b + 1))..
                 (IF lead_r \div lead_b > 255 THEN 255 ELSE lead_r \div lead_b) :
        /\ ~U256Less(r1, TimesLimb(b, q))
        /\ U256Less(r1, TimesLimb(b, q + 1))

QuotientLimb(b, r1) == QuotientLimbIn(b, r1, LeadOf(r1, Len(b)), LeadOf(b, Len(b)))

\* One step of the long division: the quotient so far gains the limb q below
\* it, and r1 - q * b is the remainder carried down.
DivStep(b, quot, r1, q) == [quot |-> <<q>> \o quot, rem |-> U256Sub(r1, TimesLimb(b, q))]

DivLimb(b, st, r1) == DivStep(b, st.quot, r1, QuotientLimb(b, r1))

\* The long division of a by b over the limbs hi down to lo of a, from the
\* quotient and the remainder st of the limbs above hi (the remainder is
\* below b).
RECURSIVE DivRange(_, _, _, _, _)
DivRange(a, b, lo, hi, st) ==
    IF Len(st.rem) > Len(b) THEN st
    ELSE IF lo = hi THEN DivLimb(b, st, TrimLimbs(<<a[lo]>> \o st.rem))
    ELSE DivRange(a, b, lo, (lo + hi) \div 2,
                  DivRange(a, b, ((lo + hi) \div 2) + 1, hi, st))

\* a / b rounded down, which panics when b is zero.
U256Div(a, b) ==
    IF a = Panic \/ b = Panic \/ b = <<>> THEN Panic
    ELSE IF a = <<>> THEN <<>>
    ELSE TrimLimbs(DivRange(a, b, 1, Len(a), [quot |-> <<>>, rem |-> <<>>]).quot)

\* The value of a U256 below 2^31.
LimbsToInt(b) ==
    LET At(k) == IF k <= Len(b) THEN b[k] ELSE 0
    IN At(1) + 256 * At(2) + 65536 * At(3) + 16777216 * At(4)

\* A U256 is below the (small) integer m.
LimbsBelow(b, m) == Len(b) < 4 /\ LimbsToInt(b) < m

\* U256::low_u32: the low 32 bits, that is the four lowest limbs.
LowU32(b) == TrimLimbs(IF Len(b) > 4 THEN SubSeq(b, 1, 4) ELSE b)

\* The AMM formula (pools.rs lines 89-92, multi_threaded.rs lines 444-447):
\* numerator / denominator, where numerator = amount_in_with_fee * reserve_out
\* and denominator = reserve_in * 10000 + amount_in_with_fee.
SwapFormula(amount_in_with_fee, reserve_in, reserve_out) ==
    U256Div(U256Mul(amount_in_with_fee, reserve_out),
            U256Add(U256Mul(reserve_in, Limbs(10000)), amount_in_with_fee))

\* A get_amount_out that takes reserve0 for the input side whatever token_in.
GetAmountOutUnoriented(pool, amount_in, token_in) ==
    IF pool.reserve0 = <<>> \/ pool.reserve1 = <<>> THEN <<>>
    ELSE SwapFormula(U256Mul(amount_in, Limbs(10000 - pool.fee_bps)),
                     pool.reserve0, pool.reserve1)

\* A get_amount_out whose numerator leaves amount_in out.
GetAmountOutNoAmount(pool, amount_in, token_in) ==
    LET reserve_in == IF token_in = pool.token0 THEN pool.reserve0 ELSE pool.reserve1
        reserve_out == IF token_in = pool.token0 THEN pool.reserve1 ELSE pool.reserve0
    IN IF reserve_in = <<>> \/ reserve_out = <<>> THEN <<>>
       ELSE LET amount_in_with_fee == U256Mul(amount_in, Limbs(10000 - pool.fee_bps))
            IN U256Div(U256Mul(Limbs(10000 - pool.fee_bps), reserve_out),
                       U256Add(U256Mul(reserve_in, Limbs(10000)), amount_in_with_fee))

\* A get_amount_out without the test for an empty reserve.
GetAmountOutUnguarded(pool, amount_in, token_in) ==
    LET reserve_in == IF token_in = pool.token0 THEN pool.reserve0 ELSE pool.reserve1
        reserve_out == IF token_in = pool.token0 THEN pool.reserve1 ELSE pool.reserve0
    IN SwapFormula(U256Mul(amount_in, Limbs(10000 - pool.fee_bps)), reserve_in, reserve_out)

\* A get_amount_out at the pool's spot price: the denominator leaves the
\* input out.
GetAmountOutSpotPrice(pool, amount_in, token_in) ==
    LET reserve_in == IF token_in = pool.token0 THEN pool.reserve0 ELSE pool.reserve1
        reserve_out == IF token_in = pool.token0 THEN pool.reserve1 ELSE pool.reserve0
    IN IF reserve_in = <<>> \/ reserve_out = <<>> THEN <<>>
       ELSE LET amount_in_with_fee == U256Mul(amount_in, Limbs(10000 - pool.fee_bps))
            IN U256Div(U256Mul(amount_in_with_fee, reserve_out),
                       U256Mul(reserve_in, Limbs(10000)))

\* Pool::get_amount_out (pools.rs lines 75-93) on U256 reserves and amount;
\* fee_bps is at most 10000.
GetAmountOutU256(pool, amount_in, token_in) ==
    LET reserve_in == IF token_in = pool.token0 THEN pool.reserve0 ELSE pool.reserve1
        reserve_out == IF token_in = pool.token0 THEN pool.reserve1 ELSE pool.reserve0
    IN IF reserve_in = <<>> \/ reserve_out = <<>> THEN <<>>
       ELSE SwapFormula(U256Mul(amount_in, Limbs(10000 - pool.fee_bps)),
                        reserve_in, reserve_out)

\* get_amount_out for a pool and an amount given as small integers.
GetAmountOut(pool, amount_in, token_in) ==
    LimbsToInt(GetAmountOutU256([pool EXCEPT !.reserve0 = Limbs(@), !.reserve1 = Limbs(@)],
                                Limbs(amount_in), token_in))

\* ArbitrageDetector::estimate_gas.
EstimateGas(pool_a, pool_b) ==
    LET Gas(p) == IF IsV3(p) THEN 150000 ELSE 100000
    IN 50000 + Gas(pool_a) + Gas(pool_b)

\* profit_bps_u256 = profit * U256::from(10000u32) / amount
ProfitBps(profit, amount) == U256Div(U256Mul(Limbs(profit), Limbs(10000)), Limbs(amount))

\* A net profit that leaves the gas cost out.
NetProfitGross(profit, gas_cost) == IF profit > gas_cost THEN Some(profit) ELSE None

\* if profit > gas_cost { profit - gas_cost } else { continue }
NetProfit(profit, gas_cost) == IF profit > gas_cost THEN Some(profit - gas_cost) ELSE None

\* A step whose two tokens are exchanged.
PathStepReversed(pool, token_in, token_out, amount_in, amount_out) ==
    [pool |-> pool.address, token_in |-> token_out, token_out |-> token_in,
     amount_in |-> amount_in, amount_out |-> amount_out]

\* One ArbitrageStep / PathStep of a path (amount_out is PathStep.expected_out).
PathStep(pool, token_in, token_out, amount_in, amount_out) ==
    [pool |-> pool.address, token_in |-> token_in, token_out |-> token_out,
     amount_in |-> amount_in, amount_out |-> amount_out]

\* The body of find_two_hop_arb's double loop for one (pool_a, pool_b).
TwoHopCandidate(pool_a, pool_b, token, intermediate, amount, min_profit_bps, gas_price) ==
    IF pool_a.address = pool_b.address THEN None
    ELSE LET amount_mid == GetAmountOut(pool_a, amount, token) IN
    IF amount_mid = 0 THEN None
    ELSE LET amount_out == GetAmountOut(pool_b, amount_mid, intermediate) IN
    IF amount_out = 0 THEN None
    ELSE IF amount_out <= amount THEN None
    ELSE LET profit == amount_out - amount
             profit_bps == LowU32(ProfitBps(profit, amount)) IN
    IF LimbsBelow(profit_bps, min_profit_bps) THEN None
    ELSE LET gas_estimate == EstimateGas(pool_a, pool_b)
             net_profit == NetProfit(profit, gas_estimate * gas_price) IN
    IF net_profit = None THEN None
    ELSE Some([path |-> <<PathStep(pool_a, token, intermediate, amount, amount_mid),
                          PathStep(pool_b, intermediate, token, amount_mid, amount_out)>>,
               input_token |-> token, input_amount |-> amount,
               output_amount |-> amount_out, profit |-> profit,
               profit_bps |-> profit_bps, gas_estimate |-> gas_estimate,
               net_profit |-> net_profit[1]])

\* A best_opportunity that the first qualifying candidate sets for good.
KeepFirst(cands) ==
    LET some == {k \in 1..Len(cands) : cands[k] # None}
    IN IF some = {} THEN None ELSE cands[MinOf(some)]

\* The best_opportunity after the loop over the candidates in loop order: a
\* candidate replaces the best when there is none yet or when its net_profit
\* is strictly greater.
KeepBest(cands) ==
    LET RECURSIVE Loop(_, _)
        Loop(k, best_opportunity) ==
            IF k > Len(cands) THEN best_opportunity
            ELSE IF cands[k] = None THEN Loop(k + 1, best_opportunity)
            ELSE IF best_opportunity # None
                 THEN (IF cands[k][1].net_profit > best_opportunity[1].net_profit
                       THEN Loop(k + 1, cands[k])
                       ELSE Loop(k + 1, best_opportunity))
                 ELSE Loop(k + 1, cands[k])
    IN Loop(1, None)

\* find_two_hop_arb over the two get_pools results.
FindTwoHopArb(pools_first, pools_second, token, intermediate, amount, min_profit_bps, gas_price) ==
    IF pools_first = <<>> \/ pools_second = <<>> THEN None
    ELSE LET n == Len(pools_second) IN
         KeepBest([k \in 1..(Len(pools_first) * n) |->
                     TwoHopCandidate(pools_first[((k - 1) \div n) + 1],
                                     pools_second[((k - 1) % n) + 1],
                                     token, intermediate, amount, min_profit_bps, gas_price)])

\* The body of find_triangular_arb's triple loop for one (pool_ab, pool_bc,
\* pool_ca); the gas estimate is 400_000 for three swaps.
TriangularCandidate(pool_ab, pool_bc, pool_ca, token_a, token_b, token_c, amount, min_profit_bps, gas_price) ==
    LET amount_b == GetAmountOut(pool_ab, amount, token_a) IN
    IF amount_b = 0 THEN None
    ELSE LET amount_c == GetAmountOut(pool_bc, amount_b, token_b) IN
    IF amount_c = 0 THEN None
    ELSE LET amount_out == GetAmountOut(pool_ca, amount_c, token_c) IN
    IF amount_out = 0 \/ amount_out <= amount THEN None
    ELSE LET profit == amount_out - amount
             profit_bps == LowU32(ProfitBps(profit, amount)) IN
    IF LimbsBelow(profit_bps, min_profit_bps) THEN None
    ELSE LET net_profit == NetProfit(profit, 400000 * gas_price) IN
    IF net_profit = None THEN None
    ELSE Some([path |-> <<PathStep(pool_ab, token_a, token_b, amount, amount_b),
                          PathStep(pool_bc, token_b, token_c, amount_b, amount_c),
                          PathStep(pool_ca, token_c, token_a, amount_c, amount_out)>>,
               input_token |-> token_a, input_amount |-> amount,
               output_amount |-> amount_out, profit |-> profit,
               profit_bps |-> profit_bps, gas_estimate |-> 400000,
               net_profit |-> net_profit[1]])

\* pools.iter().take(3)
Take3(s) == IF Len(s) > 3 THEN SubSeq(s, 1, 3) ELSE s

\* find_triangular_arb over the three get_pools results (the first three of each).
FindTriangularArb(pools_ab, pools_bc, pools_ca, token_a, token_b, token_c, amount, min_profit_bps, gas_price) ==
    LET ab == Take3(pools_ab)
        bc == Take3(pools_bc)
        ca == Take3(pools_ca)
        n2 == Len(bc)
        n3 == Len(ca)
    IN IF pools_ab = <<>> \/ pools_bc = <<>> \/ pools_ca = <<>> THEN None
       ELSE KeepBest([k \in 1..(Len(ab) * n2 * n3) |->
                        TriangularCandidate(ab[((k - 1) \div (n2 * n3)) + 1],
                                            bc[(((k - 1) \div n3) % n2) + 1],
                                            ca[((k - 1) % n3) + 1],
                                            token_a, token_b, token_c, amount,
                                            min_profit_bps, gas_price)])

\* Some(n) for Some(a U256 of value n below 2^31).
SomeInt(out) == IF out = None THEN None ELSE Some(LimbsToInt(out[1]))

\* simulate_swap_out (multi_threaded.rs lines 424-448) on U256 reserves and
\* amount; PoolState.fee is in bps, at most 10000. A panic inside is the
\* value Some(Panic).
SimulateSwapOutU256(amount_in, token_in, pool) ==
    LET reserve_in == IF pool.token0 = token_in THEN pool.reserve0 ELSE pool.reserve1
        reserve_out == IF pool.token0 = token_in THEN pool.reserve1 ELSE pool.reserve0
    IN IF reserve_in = <<>> \/ reserve_out = <<>> THEN None
       ELSE Some(SwapFormula(U256Mul(amount_in, Limbs(10000 - pool.fee)),
                             reserve_in, reserve_out))

\* simulate_swap_out for a pool and an amount given as small integers.
SimulateSwapOut(amount_in, token_in, pool) ==
    SomeInt(SimulateSwapOutU256(Limbs(amount_in), token_in,
                [pool EXCEPT !.reserve0 = Limbs(@), !.reserve1 = Limbs(@)]))

\* calculate_2hop_profit (multi_threaded.rs lines 337-420).
Calculate2HopProfit(swap, pool1, pool2, gas_price) ==
    LET victim_out == SimulateSwapOut(swap.amount_in, swap.token_in, pool1) IN
    IF victim_out = None THEN None
    ELSE LET intermediate == IF pool1.token0 = swap.token_out THEN pool1.token1
                             ELSE pool1.token0
             input_amount == victim_out[1] \div 10
             step1_out == SimulateSwapOut(input_amount, swap.token_out, pool1) IN
    IF step1_out = None THEN None
    ELSE LET step2_out == SimulateSwapOut(step1_out[1], intermediate, pool2) IN
    IF step2_out = None THEN None
    ELSE IF step2_out[1] <= input_amount THEN None
    ELSE LET gross_profit == step2_out[1] - input_amount
             gas_cost == gas_price * 200000 IN
    IF gross_profit <= gas_cost THEN None
    ELSE Some([path |-> <<PathStep(pool1, swap.token_out, intermediate,
                                   input_amount, step1_out[1]),
                          PathStep(pool2, intermediate, swap.token_in,
                                   step1_out[1], step2_out[1])>>,
               profit_wei |-> gross_profit, gas_estimate |-> 200000,
               net_profit_wei |-> gross_profit - gas_cost])

\* if opportunities.is_empty() { None } else { Some(opportunities) }
NoneIfEmpty(opportunities) == IF opportunities = <<>> THEN None ELSE Some(opportunities)

\* find_arbitrage_paths (multi_threaded.rs lines 278-333): the opportunities
\* in loop order, or None when there is none.
FindArbitragePaths(swap, pools, token_to_pools, gas_price) ==
    LET RECURSIVE Inner(_, _, _), Outer(_)
        Inner(pool1, intermediate, addrs) ==
            IF addrs = <<>> THEN <<>>
            ELSE (IF Head(addrs) \in DOMAIN pools
                     /\ (pools[Head(addrs)].token0 = swap.token_in
                         \/ pools[Head(addrs)].token1 = swap.token_in)
                  THEN Calculate2HopProfit(swap, pool1, pools[Head(addrs)], gas_price)
                  ELSE None)
                 \o Inner(pool1, intermediate, Tail(addrs))
        Outer(addrs) ==
            IF addrs = <<>> THEN <<>>
            ELSE LET a == Head(addrs)
                     here ==
                       IF a \notin DOMAIN pools THEN <<>>
                       ELSE IF pools[a].token0 # swap.token_out
                               /\ pools[a].token1 # swap.token_out THEN <<>>
                       ELSE LET intermediate == IF pools[a].token0 = swap.token_out
                                                THEN pools[a].token1 ELSE pools[a].token0
                            IN IF intermediate \in DOMAIN token_to_pools
                               THEN Inner(pools[a], intermediate, token_to_pools[intermediate])
                               ELSE <<>>
                 IN here \o Outer(Tail(addrs))
    IN IF swap.token_out \notin DOMAIN token_to_pools THEN None
       ELSE NoneIfEmpty(Outer(token_to_pools[swap.token_out]))

\* ---- the inputs of the searches ----

\* The PoolManager records the searches can meet, over tokens 1 (the base), 2
\* and 3: three pools of the pair (1, 2) at different prices, one pool of
\* (2, 3) and one of (1, 3).
ArbPools ==
    {[address |-> 31, token0 |-> 1, token1 |-> 2, pool_type |-> "SushiSwap",
      reserve0 |-> 1000, reserve1 |-> 100000, liquidity |-> 101000, fee_bps |-> 30],
     [address |-> 32, token0 |-> 1, token1 |-> 2, pool_type |-> "UniswapV3",
      reserve0 |-> 1000000, reserve1 |-> 1000, liquidity |-> 31622, fee_bps |-> 30],
     [address |-> 33, token0 |-> 1, token1 |-> 2, pool_type |-> "Camelot",
      reserve0 |-> 271155086, reserve1 |-> 1, liquidity |-> 271155087, fee_bps |-> 30],
     [address |-> 34, token0 |-> 2, token1 |-> 3, pool_type |-> "SushiSwap",
      reserve0 |-> 1000, reserve1 |-> 100000, liquidity |-> 101000, fee_bps |-> 30],
     [address |-> 35, token0 |-> 1, token1 |-> 3, pool_type |-> "SushiSwap",
      reserve0 |-> 1000000, reserve1 |-> 1000, liquidity |-> 1001000, fee_bps |-> 30]}

\* The input amounts and the gas prices (set_gas_price, DetectorConfig.gas_price).
ArbAmounts == {1, 100}
GasPrices == {0, 1}

\* min_profit_bps as configured by default.
MinProfitBps == 10

\* The orders in which a collection may be walked: HashMap::values() visits
\* the entries in an unspecified order, and load_pools takes its records in the
\* order the caller's Vec has them.
IterationOrders(S) ==
    {o \in [1..Cardinality(S) -> S] : \A i, j \in DOMAIN o : o[i] = o[j] => i = j}

\* PoolManager::get_pools: the matching pools, in the order values() visits
\* the table.
PoolsOf(order, t0, t1) == SelectSeq(order, LAMBDA p : MatchesPair(p, t0, t1))

\* The PoolState records loaded into the detector's table: two pools of the
\* pair (1, 2), one record whose two tokens are the same, one pool of (2, 3).
WkPools ==
    {[address |-> 41, token0 |-> 1, token1 |-> 2, reserve0 |-> 1000,
      reserve1 |-> 1000000, fee |-> 30],
     [address |-> 42, token0 |-> 1, token1 |-> 2, reserve0 |-> 10,
      reserve1 |-> 10000000, fee |-> 30],
     [address |-> 43, token0 |-> 1, token1 |-> 1, reserve0 |-> 10,
      reserve1 |-> 10000000, fee |-> 30],
     [address |-> 44, token0 |-> 2, token1 |-> 3, reserve0 |-> 1000,
      reserve1 |-> 1000000, fee |-> 30]}

\* The SwapInfo hints a trigger tx can carry.
WkSwaps ==
    {[token_in |-> 1, token_out |-> 2, amount_in |-> 1000],
     [token_in |-> 2, token_out |-> 1, amount_in |-> 1000],
     [token_in |-> 1, token_out |-> 1, amount_in |-> 1000]}

\* ---- the calls ----

ArbIdle == [kind |-> "idle", args |-> <<>>, result |-> None]

\* One find_two_hop_arb(token, intermediate, amount) call.
ArbTwoHop ==
    /\ arb = ArbIdle
    /\ \E table \in SUBSET ArbPools, t \in {<<1, 2>>, <<2, 1>>},
          amount \in ArbAmounts, gas_price \in GasPrices :
       \E order \in IterationOrders(table) :
         arb' = [kind |-> "two_hop",
                 args |-> [table |-> table, order |-> order, token |-> t[1],
                           intermediate |-> t[2], amount |-> amount,
                           gas_price |-> gas_price],
                 result |-> FindTwoHopArb(PoolsOf(order, t[1], t[2]),
                                          PoolsOf(order, t[2], t[1]),
                                          t[1], t[2], amount, MinProfitBps, gas_price)]
    /\ UNCHANGED <<pmVars, dtVars, pipeVars, monVars>>

\* One find_triangular_arb(token_a, token_b, token_c, amount) call.
ArbTriangular ==
    /\ arb = ArbIdle
    /\ \E table \in SUBSET ArbPools, t \in {<<1, 2, 3>>, <<2, 3, 1>>},
          amount \in ArbAmounts, gas_price \in GasPrices :
       \E order \in IterationOrders(table) :
         arb' = [kind |-> "triangular",
                 args |-> [table |-> table, order |-> order, token |-> t[1],
                           intermediate |-> t[2], third |-> t[3], amount |-> amount,
                           gas_price |-> gas_price],
                 result |-> FindTriangularArb(PoolsOf(order, t[1], t[2]),
                                              PoolsOf(order, t[2], t[3]),
                                              PoolsOf(order, t[3], t[1]),
                                              t[1], t[2], t[3], amount,
                                              MinProfitBps, gas_price)]
    /\ UNCHANGED <<pmVars, dtVars, pipeVars, monVars>>

\* One find_arbitrage_paths call of a worker, for the hint of a swap tx, over
\* the table and the token index that load_pools built from the records.
ArbWorker ==
    /\ arb = ArbIdle
    /\ \E loaded \in SUBSET WkPools, swap \in WkSwaps, gas_price \in GasPrices :
       \E order \in IterationOrders(loaded) :
         LET RECURSIVE Index(_)
             Index(recs) ==
                 IF recs = <<>> THEN EmptyMap
                 ELSE LET rest == Index(SubSeq(recs, 1, Len(recs) - 1))
                          p == recs[Len(recs)]
                      IN IndexPush(IndexPush(rest, p.token0, p.address),
                                   p.token1, p.address)
             pools == [a \in {p.address : p \in loaded} |->
                          CHOOSE q \in loaded : q.address = a]
         IN arb' = [kind |-> "worker",
                    args |-> [table |-> loaded, order |-> order, swap |-> swap,
                              gas_price |-> gas_price],
                    result |-> FindArbitragePaths(swap, pools, Index(order), gas_price)]
    /\ UNCHANGED <<pmVars, dtVars, pipeVars, monVars>>

ArbInit == arb = ArbIdle

ArbStep == ArbTwoHop \/ ArbTriangular \/ ArbWorker

\* ------------------------------------------------------------------------
\* Part 6. The swap formula and the sizing walk on full U256 values
\*         (arbitrum/pools.rs, arbitrum/detector.rs, detector/multi_threaded.rs)
\* ------------------------------------------------------------------------

\* if amount_out > mid { amount_out - mid } else { U256::zero() }
ProfitOver(mid, amount_out) ==
    IF amount_out = Panic THEN Panic
    ELSE IF U256Less(mid, amount_out) THEN U256Sub(amount_out, mid) ELSE <<>>

\* The profit that find_optimal_amount computes at an input (detector.rs
\* lines 384-391): the output of the two swaps less the input, or zero.
ProfitAt(pool_a, pool_b, token, intermediate, mid) ==
    ProfitOver(mid, GetAmountOutU256(pool_b, GetAmountOutU256(pool_a, mid, token),
                                     intermediate))

\* Lines 393-399: the probe at mid found profit. The walk st is low, high,
\* best_amount, best_profit and, for the record, the inputs probed so far.
Probed(st, mid, profit) ==
    IF profit = Panic
    THEN [st EXCEPT !.best_amount = Panic, !.probes = Append(@, mid)]
    ELSE IF U256Less(st.best_profit, profit)
    THEN [low |-> U256Add(mid, Limbs(1)), high |-> st.high,
          best_amount |-> mid, best_profit |-> profit, probes |-> Append(st.probes, mid)]
    ELSE [low |-> st.low, high |-> U256Sub(mid, Limbs(1)),
          best_amount |-> st.best_amount, best_profit |-> st.best_profit,
          probes |-> Append(st.probes, mid)]

\* Lines 381-399: the probe at mid.
ProbeAt(pool_a, pool_b, token, intermediate, st, mid) ==
    Probed(st, mid, ProfitAt(pool_a, pool_b, token, intermediate, mid))

\* Lines 377-399: one turn of the loop. A turn after the break, or after a
\* panic, leaves the walk as it is.
Turn(pool_a, pool_b, token, intermediate, st) ==
    IF st.best_amount = Panic \/ ~U256Less(st.low, st.high) THEN st
    ELSE ProbeAt(pool_a, pool_b, token, intermediate, st,
                 U256Div(U256Add(st.low, st.high), Limbs(2)))

\* The turns first..last of the loop, taken in halves.
RECURSIVE Turns(_, _, _, _, _, _, _)
Turns(pool_a, pool_b, token, intermediate, first, last, st) ==
    IF Len(st.probes) < first - 1 THEN st
    ELSE IF first = last THEN Turn(pool_a, pool_b, token, intermediate, st)
    ELSE Turns(pool_a, pool_b, token, intermediate, ((first + last) \div 2) + 1, last,
               Turns(pool_a, pool_b, token, intermediate, first, (first + last) \div 2, st))

\* The lower bound of the sizing walk: U256::from(1_000_000_000_000_000u64).
LowerBound == U256Mul(Limbs(1000000), Limbs(1000000000))

\* find_optimal_amount (detector.rs lines 363-403): the walk when it returns;
\* best_amount is the amount returned, probes the inputs at which the profit
\* was evaluated.
FindOptimalAmount(pool_a, pool_b, token, intermediate) ==
    Turns(pool_a, pool_b, token, intermediate, 1, 64,
          [low |-> LowerBound,
           high |-> U256Div(IF U256Less(pool_a.reserve1, pool_a.reserve0)
                            THEN pool_a.reserve1 ELSE pool_a.reserve0, Limbs(10)),
           best_amount |-> LowerBound, best_profit |-> <<>>, probes |-> <<>>])

\* ---- the inputs ----

\* U256 amounts and reserves: 0, 1, 2, 1000, 10^18 and 2^250.
SwapValues ==
    {<<>>, Limbs(1), Limbs(2), Limbs(1000),
     U256Mul(Limbs(1000000000), Limbs(1000000000)),
     [i \in 1..32 |-> IF i = 32 THEN 4 ELSE 0]}

\* Fees in basis points.
SwapFees == {0, 30}

\* Reserve pairs (in units of 10^15) of the pools that find_optimal_amount is
\* given: pool_a, then pool_b.
OptReservesA == {<<100, 100>>, <<20, 20>>, <<5, 10000>>}
OptReservesB == {<<100, 97>>, <<100, 50>>, <<20, 10>>}

\* Small reserves, fees and amounts for the search over two pools that differ
\* in address only.
TwinReserves == {1, 1000, 100000}
TwinAmounts == {0, 1, 100, 1000000}

\* ---- the calls ----

\* One call of pool.get_amount_out(amount_in, token_in), and of
\* simulate_swap_out on the same values; a second call is on the same pool,
\* with any amount or with the amount the first one returned.
SwapCall ==
    /\ \/ arb = ArbIdle
       \/ arb.kind = "swap_out" /\ arb.earlier = None
    /\ \E reserve0 \in SwapValues, reserve1 \in SwapValues, fee \in SwapFees,
          token_in \in {1, 2} :
       \E amount_in \in SwapValues \cup
                        (IF arb = ArbIdle \/ arb.result = Panic THEN {} ELSE {arb.result}) :
         LET pool == [address |-> 51, token0 |-> 1, token1 |-> 2, reserve0 |-> reserve0,
                      reserve1 |-> reserve1, fee_bps |-> fee]
             state == [address |-> 51, token0 |-> 1, token1 |-> 2, reserve0 |-> reserve0,
                       reserve1 |-> reserve1, fee |-> fee]
         IN /\ arb # ArbIdle => pool = arb.args.pool
            /\ arb' = [kind |-> "swap_out",
                       args |-> [pool |-> pool, amount_in |-> amount_in,
                                 token_in |-> token_in],
                       result |-> GetAmountOutU256(pool, amount_in, token_in),
                       simulated |-> SimulateSwapOutU256(amount_in, token_in, state),
                       earlier |-> IF arb = ArbIdle THEN None
                                   ELSE Some([args |-> arb.args, result |-> arb.result,
                                              simulated |-> arb.simulated])]
    /\ UNCHANGED <<pmVars, dtVars, pipeVars, monVars>>

\* One find_two_hop_arb call of a detector with min_profit_bps 0 and gas price
\* 0, over a table of two pools with the same tokens, reserves and fee.
TwinCall ==
    /\ arb = ArbIdle
    /\ \E reserve0 \in TwinReserves, reserve1 \in TwinReserves, fee \in SwapFees,
          t \in {<<1, 2>>, <<2, 1>>}, amount \in TwinAmounts :
         LET Twin(address, pool_type) ==
                 [address |-> address, token0 |-> 1, token1 |-> 2,
                  pool_type |-> pool_type, reserve0 |-> reserve0, reserve1 |-> reserve1,
                  liquidity |-> 0, fee_bps |-> fee]
             order == <<Twin(52, "SushiSwap"), Twin(53, "Camelot")>>
         IN arb' = [kind |-> "twin",
                    args |-> [order |-> order, token |-> t[1], intermediate |-> t[2],
                              amount |-> amount, gas_price |-> 0],
                    result |-> FindTwoHopArb(PoolsOf(order, t[1], t[2]),
                                             PoolsOf(order, t[2], t[1]),
                                             t[1], t[2], amount, 0, 0)]
    /\ UNCHANGED <<pmVars, dtVars, pipeVars, monVars>>

\* One find_optimal_amount(pool_a, pool_b, token, intermediate) call.
OptimalCall ==
    /\ arb = ArbIdle
    /\ \E res_a \in OptReservesA, res_b \in OptReservesB :
         LET Unit(n) == U256Mul(Limbs(n), U256Mul(Limbs(1000000), Limbs(1000000000)))
             pool_a == [address |-> 54, token0 |-> 1, token1 |-> 2, reserve0 |-> Unit(res_a[1]),
                        reserve1 |-> Unit(res_a[2]), fee_bps |-> 30]
             pool_b == [address |-> 55, token0 |-> 1, token1 |-> 2, reserve0 |-> Unit(res_b[1]),
                        reserve1 |-> Unit(res_b[2]), fee_bps |-> 30]
         IN arb' = [kind |-> "optimal",
                    args |-> [pool_a |-> pool_a, pool_b |-> pool_b, token |-> 1,
                              intermediate |-> 2],
                    result |-> FindOptimalAmount(pool_a, pool_b, 1, 2)]
    /\ UNCHANGED <<pmVars, dtVars, pipeVars, monVars>>

\* Call data for is_likely_swap: its length and its first four bytes. The
\* known selectors, ERC-20 transfer and approve, a selector that starts with
\* a zero byte, and call data shorter than a selector.
CallData ==
    {[len |-> l, selector |-> s] :
        l \in {4, 68},
        s \in KnownSelectors \cup {<<169, 5, 156, 187>>, <<9, 94, 167, 179>>, <<0, 0, 0, 1>>}}
    \cup {[len |-> 0, selector |-> <<>>], [len |-> 3, selector |-> <<56, 237, 23>>]}

\* One is_likely_swap(tx) call of the enhanced monitor.
ClassifyCall ==
    /\ arb = ArbIdle
    /\ \E input \in CallData :
         arb' = [kind |-> "is_likely_swap", args |-> [input |-> input],
                 result |-> IsLikelySwap(input)]
    /\ UNCHANGED <<pmVars, dtVars, pipeVars, monVars>>

\* The payload of test_extract_tx_hash, byte by byte.
TestPayload ==
    <<123, 34, 106, 115, 111, 110, 114, 112, 99, 34, 58, 34, 50, 46, 48, 34,
      44, 34, 109, 101, 116, 104, 111, 100, 34, 58, 34, 101, 116, 104, 95, 115,
      117, 98, 115, 99, 114, 105, 112, 116, 105, 111, 110, 34, 44, 34, 112, 97,
      114, 97, 109, 115, 34, 58, 123, 34, 115, 117, 98, 115, 99, 114, 105, 112,
      116, 105, 111, 110, 34, 58, 34, 48, 120, 49, 34, 44, 34, 114, 101, 115,
      117, 108, 116, 34, 58, 34, 48, 120, 49, 50, 51, 52, 53, 54, 55, 56,
      57, 48, 97, 98, 99, 100, 101, 102, 49, 50, 51, 52, 53, 54, 55, 56,
      57, 48, 97, 98, 99, 100, 101, 102, 49, 50, 51, 52, 53, 54, 55, 56,
      57, 48, 97, 98, 99, 100, 101, 102, 49, 50, 51, 52, 53, 54, 55, 56,
      57, 48, 97, 98, 99, 100, 101, 102, 34, 125, 125>>

\* Messages for extract_tx_hash_fast: the test payload; a notification; two
\* results in one message; upper-case digits; a message that ends with the
\* 64th digit, and one that ends a digit earlier; a result that is not hex;
\* a two-byte character within the 64 bytes; no result; and a two-byte
\* character whose first byte is the 64th byte after the pattern.
ExtractTexts ==
    {TestPayload,
     Notification(7),
     <<123>> \o ResultPattern \o Repeat(97, 64) \o <<34, 44>> \o ResultPattern \o
         Repeat(98, 64) \o <<34, 125>>,
     <<123>> \o ResultPattern \o Repeat(97, 3) \o <<34, 44>> \o ResultPattern \o
         Repeat(98, 64) \o <<34, 125>>,
     ResultPattern \o Repeat(65, 32) \o Repeat(70, 32) \o <<34>>,
     ResultPattern \o Repeat(49, 64),
     ResultPattern \o Repeat(49, 63),
     ResultPattern \o Repeat(122, 64) \o <<34, 125>>,
     ResultPattern \o Repeat(49, 10) \o <<195, 169>> \o Repeat(49, 60),
     <<123, 34, 105, 100, 34, 58, 49, 125>>,
     ResultPattern \o Repeat(49, 63) \o <<195, 169, 34, 125>>}

\* One extract_tx_hash_fast(text) call of the hash-only monitor.
ExtractCall ==
    /\ arb = ArbIdle
    /\ \E text \in ExtractTexts :
         arb' = [kind |-> "extract_tx_hash_fast", args |-> [text |-> text],
                 result |-> ExtractTxHashFast(text)]
    /\ UNCHANGED <<pmVars, dtVars, pipeVars, monVars>>

MathStep == SwapCall \/ TwinCall \/ OptimalCall \/ ClassifyCall \/ ExtractCall

\* ------------------------------------------------------------------------
\* Specifications
\* ------------------------------------------------------------------------

Init == PmInit /\ DtInit /\ PipeInit /\ MonInit /\ ArbInit

Next == PipeStep

\* The dispatcher and the workers.
Spec == Init /\ [][Next]_vars

\* The OS schedules every thread: the dispatcher and each worker keep taking
\* steps while they have one to take. Nothing is assumed of the owner
\* (Start, Stop) or of the ingestor (Ingest).
FairSpec ==
    /\ Spec
    /\ WF_vars(DispStep)
    /\ \A w \in Workers : WF_vars(WorkerStep(w))

\* The two monitors and their streams.
IngestSpec == Init /\ [][MonStep]_vars

\* The async runtime polls each monitor task: a step the task can take on its
\* own is eventually taken. Nothing is assumed of the upstream: no frame ever
\* has to arrive and no stream ever has to end.
FairIngestSpec == IngestSpec /\ WF_vars(MonRunStep) /\ WF_vars(EnhRunStep)

\* The PoolManager alone.
PoolSpec == Init /\ [][PmStep]_vars

\* The pool a completed discover_pools(1, 2) stored for an upstream address,
\* with every read successful: liquidity 1000 at price 1 for the V3 pool,
\* getReserves() = (500, 2000) for the pair.
DiscoveredPool(a) ==
    IF \E u \in UpstreamV3 : u.address = a
    THEN FetchV3Pool(CHOOSE u \in UpstreamV3 : u.address = a,
                     [ok |-> TRUE, liquidity |-> 1000, sqrtK |-> 1])[1]
    ELSE FetchV2Pool(CHOOSE u \in UpstreamV2 : u.address = a, 1, 2,
                     [ok |-> TRUE, reserve0 |-> 500, reserve1 |-> 2000])[1]

\* The PoolManager after that discover_pools call has returned: the table
\* holds both pools, read at read number 1; the calls counted are those
\* started from here on.
DiscoveredInit ==
    /\ pmPools = [a \in PoolAddrs |-> DiscoveredPool(a)]
    /\ pmLock = LockFree
    /\ pmCommitted = [a \in PoolAddrs |-> {ReservePair(DiscoveredPool(a))}]
    /\ pmOps = 0
    /\ pmReads = [next |-> 2, installed |-> [a \in PoolAddrs |-> 1],
                  newest |-> [a \in PoolAddrs |-> 1]]
    /\ ds = DsIdle
    /\ ra = RaIdle
    /\ rp = RpIdle
    /\ gp = GpIdle

\* The PoolManager's calls on a table that already holds the discovered pools.
RefreshInit == DiscoveredInit /\ DtInit /\ PipeInit /\ MonInit /\ ArbInit

RefreshSpec == RefreshInit /\ [][PmStep]_vars

\* The detector's pool table alone.
TableSpec == Init /\ [][DtStep]_vars

PmUntouched == pmOps = 0 /\ gp = GpIdle
DtUntouched == dtOps = 0 /\ lk = LkIdle

\* Both pool graphs. They share no state, so a run exercises one of them:
\* the interleavings of the two add no state of either.
TornNext ==
    \/ DtUntouched /\ PmStep
    \/ PmUntouched /\ DtStep

TornSpec == Init /\ [][TornNext]_vars

\* The arbitrage searches: one call per run, over every input.
ArbSpec == Init /\ [][ArbStep]_vars

\* The pure functions, one call per run: the swap formula (and a second call
\* on the same pool), the search over twin pools, the sizing walk and the
\* swap classification.
MathSpec == Init /\ [][MathStep]_vars

\* Every started step of a PoolManager call is eventually taken (the async
\* runtime polls every task, every RPC returns or times out), and the tokio
\* RwLock is fair: a waiting writer is served (strong fairness on the lock).
DsRun == DsStore \/ DsReturn
RaRun == RaFetch \/ RaStore \/ RaUnlock
RpRun == RpFetch \/ RpStore
GpRun == GpCloneFirst \/ GpCloneRest \/ GpUnlock

FairPoolSpec ==
    /\ PoolSpec
    /\ WF_vars(DsRun) /\ SF_vars(DsLock)
    /\ WF_vars(RaRun) /\ SF_vars(RaLock)
    /\ WF_vars(RpRun) /\ SF_vars(RpLock)
    /\ WF_vars(GpRun)

\* ------------------------------------------------------------------------
\* Claims
\* ------------------------------------------------------------------------

\* C1: under any interleaving of the reserve writers with the readers, every
\* pool record a reader obtains (a get_pools copy, a worker's lookup) carries a
\* (reserve0, reserve1) pair that one single update committed together.
C1_NoTornRead ==
    /\ \A i \in 1..Len(gp.result) :
         ReservePair(gp.result[i]) \in pmCommitted[gp.result[i].address]
    /\ lk.pair # None => lk.pair[1] \in dtCommitted[lk.addr]

\* C1 witness: get_pools has copied a pool whose reserves a refresh had replaced.
C1_Witness ==
    \E i \in 1..Len(gp.result) :
        /\ Cardinality(pmCommitted[gp.result[i].address]) >= 2
        /\ ReservePair(gp.result[i]) \in pmCommitted[gp.result[i].address]

\* C9 (as claimed): while refresh_all or refresh_pool is in progress a get_pools
\* call can always take the read lock.
C9_ReadNeverBlocked ==
    (ra.pc \in {"fetch", "lock", "store"} \/ rp.pc \in {"fetch", "lock", "store"})
        => ReadFree(pmLock)

\* The reserves an upstream read reports (virtual reserves for a V3 pool).
ReportedReserves(pool, read) ==
    IF ~IsV3(pool) THEN <<read.reserve0, read.reserve1>>
    ELSE IF read.sqrtK = 0 THEN <<0, 0>>
    ELSE V3VirtualReserves(read.liquidity, read.sqrtK)

\* A V3 read that refresh_all discards although every RPC succeeded.
V3Discarded(pool, read) ==
    /\ IsV3(pool)
    /\ \/ read.liquidity = 0
       \/ read.sqrtK = 0
       \/ \E k \in 1..2 : ReportedReserves(pool, read)[k] < DustThreshold

RaFinishedAlone == ra.pc = "done" /\ ra.clean

\* The positions a refresh_all result list can have: one per known pool.
ResultSlots == 1..Cardinality(PoolAddrs)

C10_Outcome ==
    RaFinishedAlone =>
        \A i \in ResultSlots : i <= Len(ra.results) =>
            LET e == ra.results[i]
                old == ra.snap[e.addr]
            IN IF e.read.ok /\ ~V3Discarded(old, e.read)
               THEN /\ ReservePair(pmPools[e.addr]) = ReportedReserves(old, e.read)
                    /\ [pmPools[e.addr] EXCEPT !.reserve0 = 0, !.reserve1 = 0, !.liquidity = 0]
                         = [old EXCEPT !.reserve0 = 0, !.reserve1 = 0, !.liquidity = 0]
               ELSE pmPools[e.addr] = old

InWorkQ(t) == \E i \in 1..WorkCap : i <= Len(workQ) /\ workQ[i].id = t

AllExited == disp.pc = "exited" /\ \A w \in Workers : wk[w].pc = "exited"

\* C2: every tx the dispatcher put on the work channel is received by at most
\* one worker, once, and - while the detector keeps running - by some worker
\* eventually.
C2_OneWorkerPerTx ==
    /\ [](\A t \in TxIds : Len(received[t]) <= 1)
    /\ \A t \in TxIds : InWorkQ(t) ~> (received[t] # <<>> \/ ~running)

\* C2 witness: two txs went through the work channel and each worker received
\* one of them.
C2_Witness ==
    \E t1, t2 \in TxIds : received[t1] = <<0>> /\ received[t2] = <<1>>

\* C3 (as claimed): the dispatcher is never held in work_tx.send by a full
\* work channel.
C3_SendNeverBlocks ==
    ~(disp.pc = "send" /\ Len(workQ) = WorkCap /\ ~SendFails(LiveReceivers))

\* C5: once stop() has cleared the running flag, the dispatcher and every
\* worker eventually leave their loops, whatever the two channels hold.
C5_StopTerminates == (started /\ ~running) ~> AllExited

\* C5 witness: every thread has exited although the dispatcher was in send
\* with a tx in hand and the work channel is still full.
C5_Witness ==
    AllExited /\ Len(workQ) = WorkCap /\ dropped # {}

\* C7: within one worker, the ids of each result start above every id the
\* worker assigned before (the ids of one result are consecutive).
C7_IdsIncrease ==
    \A w \in Workers : \A i, j \in 1..Len(issued[w]) :
        i < j => issued[w][i].first + issued[w][i].count - 1 < issued[w][j].first

\* C7 witness: a worker has assigned ids in two different batches.
C7_Witness ==
    \E w \in Workers :
        /\ Len(issued[w]) >= 2
        /\ issued[w][1].batchNo # issued[w][2].batchNo

\* C8 (as claimed): no id assigned by one worker is assigned by another.
C8_DisjointIds ==
    \A w1, w2 \in Workers : w1 # w2 =>
        \A i \in 1..Len(issued[w1]), j \in 1..Len(issued[w2]) :
            LET a == issued[w1][i]
                b == issued[w2][j]
            IN a.first + a.count <= b.first \/ b.first + b.count <= a.first

\* C4 (as claimed): MempoolMonitor::start leaves its receive loop only after
\* stop() has cleared the running flag.
C4_ReturnsOnlyAfterStop == mon.pc = "returned" => ~mon.running

\* C6 (as claimed): once stop() has been called on a monitor whose loop is
\* running, its start call eventually returns, whatever the stream does.
C6_StopReturns ==
    /\ (mon.pc \in {"loop", "select"} /\ ~mon.running) ~> (mon.pc = "returned")
    /\ (enh.pc \in {"loop", "await"} /\ ~enh.running) ~> (enh.pc = "returned")

\* The token index lists addr under token.
InIndex(token, addr) ==
    /\ token \in DOMAIN dtIndex
    /\ \E i \in 1..Len(dtIndex[token]) : dtIndex[token][i] = addr

\* C11 (as claimed): every pool stored in the PoolManager's table and in the
\* detector's table has token0 strictly below token1.
C11_TokensOrdered ==
    /\ \A a \in DOMAIN pmPools : pmPools[a].token0 < pmPools[a].token1
    /\ \A a \in DOMAIN dtPools : dtPools[a].token0 < dtPools[a].token1

\* C12: in every state, while load_pools and update_pool calls are in progress
\* or finished, each pool stored in the detector's table is listed in the
\* token index under its token0 and under its token1.
C12_StoredPoolIsIndexed ==
    \A a \in DOMAIN dtPools :
        InIndex(dtPools[a].token0, a) /\ InIndex(dtPools[a].token1, a)

\* C12 witness: a stored pool has had its reserves updated, and a load_pools
\* call for another pool is between its index pushes and its insert.
C12_Witness ==
    /\ \E a \in DOMAIN dtPools :
         /\ Cardinality(dtCommitted[a]) >= 2
         /\ lp.pool # None /\ lp.pool[1].address # a
    /\ lp.pc = "insert"

\* C13 (as claimed): every address listed in the token index under T has a
\* stored pool with token0 = T or token1 = T.
C13_IndexedPoolHasToken ==
    \A t \in DOMAIN dtIndex : \A i \in 1..Len(dtIndex[t]) :
        LET a == dtIndex[t][i] IN
        a \in DOMAIN dtPools => (dtPools[a].token0 = t \/ dtPools[a].token1 = t)

\* C14 (as claimed): no pool stored in the PoolManager's table has a reserve
\* below 1000 on either side, after any discovery and any refresh.
C14_NoDustPool ==
    \A a \in DOMAIN pmPools :
        pmPools[a].reserve0 >= DustThreshold /\ pmPools[a].reserve1 >= DustThreshold

\* A discover call has made all its inserts and is about to return, after an
\* earlier call with the same arguments; the upstream answered both calls
\* alike and no other writer changed the table in between.
DsRepeated ==
    /\ ds.pc = "store" /\ ds.next > Len(ds.found)
    /\ ds.prev # None
    /\ ds.args = ds.prev[1].args
    /\ ds.reads = ds.prev[1].reads
    /\ ds.base = ds.prev[1].after

\* C15: a second discover(token_a, token_b) over an unchanged upstream returns
\* the same set of pool addresses as the first, and leaves the table exactly
\* as the first call left it (one record per address).
C15_DiscoverIdempotent ==
    DsRepeated => /\ DsReturned = ds.prev[1].returned
                  /\ pmPools = ds.prev[1].after

\* C15 witness: the repeated call returned and re-inserted a pool.
C15_Witness == DsRepeated /\ DsReturned # {} /\ DsReturned \subseteq DOMAIN pmPools

\* The opportunities the search call of this run has produced.
Produced ==
    IF arb.result = None THEN {}
    ELSE IF arb.kind = "worker" THEN {arb.result[1][i] : i \in 1..Len(arb.result[1])}
    ELSE {arb.result[1]}

\* C16 (as claimed): the path of every opportunity produced by the two-hop
\* search, the triangular search or a worker closes a cycle: the first step's
\* token_in is the last step's token_out.
C16_PathClosesCycle ==
    \A o \in Produced : o.path[1].token_in = o.path[Len(o.path)].token_out

\* C17: in the path of every opportunity produced, each step's token_out is
\* the next step's token_in.
C17_StepsChain ==
    \A o \in Produced : \A i \in 1..(Len(o.path) - 1) :
        o.path[i].token_out = o.path[i + 1].token_in

\* C17 witness: the triangular search has produced a three-step path.
C17_Witness ==
    arb.kind = "triangular" /\ arb.result # None /\ Len(arb.result[1].path) = 3

\* C18 (as claimed): the pool addresses of the steps of every opportunity
\* produced are pairwise distinct.
C18_DistinctPools ==
    \A o \in Produced : \A i, j \in 1..Len(o.path) :
        i # j => o.path[i].pool # o.path[j].pool

\* C19: every opportunity produced satisfies net profit + gas_estimate x
\* gas price = gross profit, at the gas price the search ran with.
C19_NetPlusGas ==
    \A o \in Produced :
        IF arb.kind = "worker"
        THEN o.net_profit_wei + o.gas_estimate * arb.args.gas_price = o.profit_wei
        ELSE o.net_profit + o.gas_estimate * arb.args.gas_price = o.profit

\* C19 witness: an opportunity was produced at a nonzero gas price.
C19_Witness == Produced # {} /\ arb.args.gas_price > 0

\* The pairs (A, B) of a find_two_hop_arb call that qualify as claimed:
\* A # B, nonzero intermediate outputs, out > input and
\* floor((out - input) * 10000 / input) >= min_profit_bps.
QualifyingPairs ==
    LET a == arb.args
    IN {pr \in a.table \X a.table :
          /\ MatchesPair(pr[1], a.token, a.intermediate)
          /\ MatchesPair(pr[2], a.token, a.intermediate)
          /\ pr[1].address # pr[2].address
          /\ LET mid == GetAmountOut(pr[1], a.amount, a.token)
                 out == GetAmountOut(pr[2], mid, a.intermediate)
             IN /\ mid # 0 /\ out # 0
                /\ out > a.amount
                /\ ~LimbsBelow(ProfitBps(out - a.amount, a.amount), MinProfitBps)}

\* C20 (as claimed): find_two_hop_arb returns none exactly when no pair
\* qualifies, whatever the magnitudes (stated at gas price 0, where no
\* qualifying pair is lost to its gas cost).
C20_QualifiesExactly ==
    (arb.kind = "two_hop" /\ arb.args.gas_price = 0) =>
        (arb.result = None <=> QualifyingPairs = {})

\* The candidates that the search call in arb enumerated (none for a skipped
\* or unprofitable combination).
Enumerated ==
    LET a == arb.args
        Ran(seq) == {seq[i] : i \in 1..Len(seq)}
    IN IF arb.kind = "two_hop"
       THEN {TwoHopCandidate(pa, pb, a.token, a.intermediate, a.amount, MinProfitBps,
                             a.gas_price) :
               pa \in Ran(PoolsOf(a.order, a.token, a.intermediate)),
               pb \in Ran(PoolsOf(a.order, a.intermediate, a.token))}
       ELSE IF arb.kind = "triangular"
       THEN {TriangularCandidate(pab, pbc, pca, a.token, a.intermediate, a.third,
                                 a.amount, MinProfitBps, a.gas_price) :
               pab \in Ran(Take3(PoolsOf(a.order, a.token, a.intermediate))),
               pbc \in Ran(Take3(PoolsOf(a.order, a.intermediate, a.third))),
               pca \in Ran(Take3(PoolsOf(a.order, a.third, a.token)))}
       ELSE {}

C21_TriangularChose ==
    /\ arb.kind = "triangular"
    /\ arb.result # None
    /\ \E c \in Enumerated \ {None} : c[1].net_profit < arb.result[1].net_profit

C22_TwinPoolsNoArb == arb.kind = "twin" => arb.result = None

\* C22 witness: the search over twin pools carried an amount through both
\* swaps, nonzero at each step, and compared the output with the input.
C22_Witness ==
    /\ arb.kind = "twin"
    /\ LET a == arb.args
           amount_mid == GetAmountOut(a.order[1], a.amount, a.token)
       IN /\ amount_mid > 0
          /\ GetAmountOut(a.order[2], amount_mid, a.intermediate) > 0

\* The reserves of the get_amount_out / simulate_swap_out call in arb, as the
\* claims orient them: of token_in, and of the other token.
ReserveIn ==
    IF arb.args.token_in = arb.args.pool.token0 THEN arb.args.pool.reserve0
    ELSE arb.args.pool.reserve1
ReserveOut ==
    IF arb.args.token_in = arb.args.pool.token0 THEN arb.args.pool.reserve1
    ELSE arb.args.pool.reserve0

\* q is floor(amount_in * (10000 - fee_bps) * R_out
\*            / (R_in * 10000 + amount_in * (10000 - fee_bps)))
\* for the call in arb: q * den <= num and num - q * den < den.
IsFloorOfFormula(q) ==
    LET eff == U256Mul(arb.args.amount_in, Limbs(10000 - arb.args.pool.fee_bps))
        num == U256Mul(eff, ReserveOut)
        den == U256Add(U256Mul(ReserveIn, Limbs(10000)), eff)
        back == U256Mul(q, den)
    IN /\ ~U256Less(num, back)
       /\ U256Less(U256Sub(num, back), den)

TwoCalls ==
    /\ arb.kind = "swap_out"
    /\ arb.earlier # None
    /\ arb.result # Panic
    /\ arb.earlier[1].result # Panic

\* The two calls were for the same token, on nonzero reserves, the earlier one
\* with the smaller input.
SmallerThenLarger ==
    /\ TwoCalls
    /\ arb.earlier[1].args.token_in = arb.args.token_in
    /\ ReserveIn # <<>> /\ ReserveOut # <<>>
    /\ U256Less(arb.earlier[1].args.amount_in, arb.args.amount_in)

C24_SameOutput ==
    /\ SmallerThenLarger
    /\ arb.earlier[1].result = arb.result

C25_SmallInput ==
    /\ arb.kind = "swap_out"
    /\ ReserveIn # <<>> /\ ReserveOut # <<>>
    /\ arb.args.amount_in # <<>>
    /\ arb.result = <<>>

\* token0 was swapped into token1 and the amount that came out back into
\* token0, through the same pool of nonzero reserves and zero fee.
RoundTrip ==
    /\ TwoCalls
    /\ arb.args.pool.fee_bps = 0
    /\ arb.args.pool.reserve0 # <<>> /\ arb.args.pool.reserve1 # <<>>
    /\ arb.earlier[1].args.token_in = arb.args.pool.token0
    /\ arb.args.token_in = arb.args.pool.token1
    /\ arb.args.amount_in = arb.earlier[1].result

C26_ZeroTrip == RoundTrip /\ arb.earlier[1].args.amount_in = <<>>

\* C27: get_amount_out and simulate_swap_out return for every amount and
\* every pair of reserves: no product or sum inside reaches 2^256.
C27_NoOverflow ==
    arb.kind = "swap_out" => arb.result # Panic /\ arb.simulated # Some(Panic)

\* The two-hop profit of the find_optimal_amount call in arb at an input.
ProfitOfCall(amount) ==
    ProfitAt(arb.args.pool_a, arb.args.pool_b, arb.args.token, arb.args.intermediate, amount)

\* C28: find_optimal_amount returns an amount whose two-hop profit is at
\* least the two-hop profit at the lower bound 10^15.
C28_NotBelowLowerBound ==
    arb.kind = "optimal" =>
        ~U256Less(ProfitOfCall(arb.result.best_amount), ProfitOfCall(LowerBound))

\* C29: every find_optimal_amount call has evaluated the profit at least once
\* when it returns.
C29_Evaluated == arb.kind = "optimal" => Len(arb.result.probes) >= 1

\* C30: is_likely_swap classifies a transaction as a swap exactly when its
\* call data has at least 4 bytes and the first 4 are a known swap selector.
C30_KnownSelectorsOnly ==
    arb.kind = "is_likely_swap" =>
        (arb.result <=> (arb.args.input.len >= 4 /\ arb.args.input.selector \in KnownSelectors))

\* C39: on the same reserves, fee, input token and amount, simulate_swap_out
\* returns None exactly when a reserve is zero, where get_amount_out returns
\* 0; otherwise it returns Some of what get_amount_out returns (and panics
\* where get_amount_out panics).
C39_SwapMathAgrees ==
    arb.kind = "swap_out" =>
        IF ReserveIn = <<>> \/ ReserveOut = <<>>
        THEN arb.simulated = None /\ arb.result = <<>>
        ELSE arb.simulated # None /\ arb.simulated = Some(arb.result)

\* A swap of token1 into a pool with a fee and unequal reserves, with a
\* nonzero output.
C39_Witness ==
    /\ arb.kind = "swap_out"
    /\ arb.args.token_in = 2
    /\ arb.args.pool.fee_bps = 30
    /\ arb.args.pool.reserve0 # arb.args.pool.reserve1
    /\ arb.result # <<>>
    /\ arb.result # Panic
    /\ arb.simulated = Some(arb.result)

\* A swap into a pool with an empty reserve: None and 0.
C39_EmptyReserve ==
    /\ arb.kind = "swap_out"
    /\ arb.args.amount_in # <<>>
    /\ arb.simulated = None
    /\ arb.result = <<>>

\* ------------------------------------------------------------------------
\* The order of commits
\* ------------------------------------------------------------------------

\* C35: for every pool, the reserves in the table are the latest-read ones
\* among those committed so far: no commit installs reserves that were read
\* from upstream before reserves that are already committed.
C35_CommitsFollowReadOrder ==
    \A a \in PoolAddrs : pmReads.installed[a] = pmReads.newest[a]

\* C37: each token's index entry holds each pool address at most once.
C37_IndexIsSet ==
    \A t \in DOMAIN dtIndex :
        \A i, j \in 1..Len(dtIndex[t]) : dtIndex[t][i] = dtIndex[t][j] => i = j

RECURSIVE FoundIn(_)
\* The number of opportunities in a worker's results so far.
FoundIn(results) ==
    IF results = <<>> THEN 0 ELSE Head(results).count + FoundIn(Tail(results))

RECURSIVE FoundBy(_)
\* The number of opportunities the workers of the set S have found so far.
FoundBy(S) ==
    IF S = {} THEN 0
    ELSE LET w == CHOOSE x \in S : TRUE IN FoundIn(issued[w]) + FoundBy(S \ {w})

\* C38: opportunities_found is the number of opportunities the workers have
\* found, and profitable_count the number handed to the opportunity channel.
C38_CountersMatch ==
    /\ stats.opportunities_found = FoundBy(Workers)
    /\ stats.profitable_count = oppsSent

\* ------------------------------------------------------------------------
\* The mempool monitors' events
\* ------------------------------------------------------------------------

\* The events of outQ that carry a swap hint.
Hinted == {i \in 1..Len(outQ) : outQ[i].swap_info # None}

\* C31: every swap hint attached to an emitted tx event has token_in different
\* from token_out and amount_in > 0.
C31_HintsValid ==
    \A i \in Hinted :
        /\ outQ[i].swap_info[1].token_in # outQ[i].swap_info[1].token_out
        /\ outQ[i].swap_info[1].amount_in > 0

\* The events of outQ that the hash-only monitor emitted.
HashEvents == SelectSeq(outQ, LAMBDA e : e.from = "mon")

\* C32: each hash emitted in hash-only mode carries the timestamp-counter and
\* wall-clock readings taken on receipt of the message that contained it.
C32_ReceiptReadings ==
    \A i \in 1..Len(HashEvents) :
        \E k \in 1..Len(mon.extracted) :
            /\ mon.extracted[k].hash = HashEvents[i].hash
            /\ mon.extracted[k].receive_tsc = HashEvents[i].first_seen_tsc
            /\ mon.extracted[k].receive_ns = HashEvents[i].first_seen_ns

\* The hashes the hash-only monitor has emitted, in order.
EmittedHashes == [i \in 1..Len(HashEvents) |-> HashEvents[i].hash]

\* This step hands the batch to the output channel and empties the buffer.
Flushes(batch) == mon'.pending = <<>> /\ EmittedHashes' = EmittedHashes \o batch

\* This step extracts a hash that brings the buffer to batch_size.
FillsBuffer ==
    Len(mon'.extracted) > Len(mon.extracted) /\ Len(mon.pending) + 1 >= MonBatchSize

\* This step is the 100 us timer firing on a non-empty buffer.
TimerFires ==
    mon.pc = "select" /\ mon'.pc = "loop" /\ msgCount' = msgCount /\ mon.pending # <<>>

\* C33: the pending buffer never holds more than batch_size hashes; it is
\* flushed to the output channel by the step that brings it to batch_size and
\* by the timer step; and every flush leaves it empty.
C33_BoundedAndFlushed ==
    /\ [](Len(mon.pending) <= MonBatchSize)
    /\ [][/\ FillsBuffer =>
              Flushes(Append(mon.pending, mon'.extracted[Len(mon'.extracted)].hash))
          /\ TimerFires => Flushes(mon.pending)
          /\ EmittedHashes' # EmittedHashes => mon'.pending = <<>>]_vars

\* A full batch has been flushed (its events share one reading) and the
\* buffer is empty.
C33_Witness ==
    /\ mon.pending = <<>>
    /\ \E i \in 1..(Len(HashEvents) - 1) :
          HashEvents[i].first_seen_tsc = HashEvents[i + 1].first_seen_tsc

\* The timer has flushed a buffer that was not full.
C33_TimerFlushed ==
    /\ mon.pending = <<>>
    /\ Len(HashEvents) = 1
    /\ HashEvents[1].first_seen_tsc > mon.extracted[1].receive_tsc

\* The hashes extract_tx_hash_fast has extracted, in arrival order.
ExtractedHashes == [k \in 1..Len(mon.extracted) |-> mon.extracted[k].hash]

\* C36: every extracted hash is passed to process_batch exactly once and in
\* arrival order, and none is left behind when start has returned.
C36_NothingLost ==
    /\ EmittedHashes \o mon.pending = ExtractedHashes
    /\ mon.pc = "returned" => mon.pending = <<>>

\* The bytes that follow the first occurrence of "result":"0x in the text of
\* an extract_tx_hash_fast call (empty when the pattern is absent).
Following ==
    LET text == arb.args.text
        at == {i \in 1..Len(text) :
                  /\ i + 11 <= Len(text)
                  /\ \A k \in 1..12 : text[i + k - 1] = ResultPattern[k]}
    IN IF at = {} THEN <<>>
       ELSE SubSeq(text, (CHOOSE i \in at : \A j \in at : i <= j) + 12, Len(text))

\* At least 64 characters follow, and the first 64 are hex digits.
HexRun == Len(Following) >= 64 /\ \A k \in 1..64 : HexVal(Following[k]) # -1

\* C34: extract_tx_hash_fast returns the 32 bytes decoded from the 64 hex
\* characters that follow the first "result":"0x, and nothing when the
\* pattern is absent, fewer than 64 characters follow, or they are not all hex.
C34_DecodesOrNothing ==
    arb.kind = "extract_tx_hash_fast" =>
        arb.result = IF HexRun
                     THEN Some([k \in 1..32 |-> 16 * HexVal(Following[2 * k - 1]) +
                                                HexVal(Following[2 * k])])
                     ELSE None

====
